---- MODULE Spec2Model ----
(***************************************************************************)
(* Skill package sync engine of cc-switch-cli                              *)
(* (src-tauri/src/services/skill.rs, src-tauri/src/store.rs).              *)
(*                                                                         *)
(* State: the persisted installed-skill records, repository list and       *)
(* migration flag (database), the sync-method setting, the canonical       *)
(* store (SSOT) directory and the three application mirror directories.    *)
(* Strings whose characters matter (directory names, ids, repository       *)
(* owners and names) are tuples of one-character strings, so that          *)
(* lower-casing, trimming and prefix tests are computed.                   *)
(***************************************************************************)
EXTENDS Integers, Sequences, FiniteSets, TLC

VARIABLES
    db_skills,    \* installed-skill records of the database (keyed by id)
    db_repos,     \* repository records of the database
    db_pending,   \* setting "skills_ssot_migration_pending"
    sync_method,  \* setting: skill sync method
    ssot,         \* canonical store: directory name -> content or "none"
    mirror,       \* application -> directory name -> "none" | "link" | content
    last,         \* the call that returned last and what it returned
    calls,        \* number of calls made so far
    cfg           \* the configuration directory: database file, skills.json, archives

vars == <<db_skills, db_repos, db_pending, sync_method, ssot, mirror, last, calls, cfg>>

\* The configuration directory once the database exists: no skills.json, no
\* archive of one (FileOf: a file known by its kind only); imports counts the imports of a skills.json so far.
FileOf(kind) ==
    [kind |-> kind, dirs |-> {}, pending |-> FALSE, method |-> "Auto", repos |-> {}]

Installed == [db |-> TRUE, skills_json |-> FileOf("none"), archives |-> {}, imports |-> 0]

(***************************************************************************)
(* Bounds of the model.                                                    *)
(***************************************************************************)
MaxCalls == 2
MaxUserDirs == 1
MaxLegacy == 1
MaxBadApps == 1
MaxImport == 2

(***************************************************************************)
(* Strings.                                                                *)
(***************************************************************************)
LowerChar(c) ==
    CASE c = "A" -> "a"
      [] c = "B" -> "b"
      [] c = "C" -> "c"
      [] c = "D" -> "d"
      [] c = "L" -> "l"
      [] c = "O" -> "o"
      [] c = "R" -> "r"
      [] c = "U" -> "u"
      [] c = "X" -> "x"
      [] c = "Y" -> "y"
      [] OTHER -> c

to_lowercase(s) == [i \in DOMAIN s |-> LowerChar(s[i])]

eq_ignore_ascii_case(s, t) == to_lowercase(s) = to_lowercase(t)

starts_with(s, p) == Len(s) >= Len(p) /\ SubSeq(s, 1, Len(p)) = p

RECURSIVE trim_start(_)
trim_start(s) == IF s # <<>> /\ Head(s) = " " THEN trim_start(Tail(s)) ELSE s

RECURSIVE trim_end(_)
trim_end(s) ==
    IF s # <<>> /\ s[Len(s)] = " " THEN trim_end(SubSeq(s, 1, Len(s) - 1)) ELSE s

trim(s) == trim_end(trim_start(s))

\* Option<T>: the empty tuple is None, a one-element tuple is Some(x).
None == <<>>
Some(x) == <<x>>

(***************************************************************************)
(* Applications, directory names, repositories.                            *)
(***************************************************************************)
AppList == <<"claude", "codex", "gemini">>
Apps == {AppList[i] : i \in DOMAIN AppList}
AppPos(a) == CHOOSE i \in DOMAIN AppList : AppList[i] = a

Dir_a == <<"a">>
Dir_A == <<"A">>
Dir_dot == <<".", "d">>
Dirs == {Dir_a, Dir_A, Dir_dot}

\* Directories a user may have created by hand in an application mirror.
UserDirs == {Dir_a, Dir_A, Dir_dot}

RepoX == [owner |-> <<"x">>, name |-> <<"r">>]
RepoY == [owner |-> <<"y">>, name |-> <<"r">>]
RepoIds == {RepoX, RepoY}

\* Skill directories each remote repository holds (each with a SKILL.md).
RemoteSkillDirs(rid) == {Dir_a}

\* Content of a skill directory downloaded from a repository.
RemoteContent(rid) == IF rid = RepoX THEN "rx" ELSE "ry"

\* Directory contents: a hand-made directory or a repository skill.
Contents == {"usr", "rx", "ry"}

DefaultRepos ==
    {[owner |-> r.owner, name |-> r.name, branch |-> "main", enabled |-> TRUE] :
        r \in RepoIds}

SyncMethods == {"Auto", "Symlink", "Copy"}

LocalPrefix == <<"l", "o", "c", "a", "l", ":">>
LocalId(directory) == LocalPrefix \o directory

DiscoverKey(owner, name, directory) ==
    owner \o <<"/">> \o name \o <<":">> \o directory

(***************************************************************************)
(* SKILL.md front matter of a directory content.                           *)
(***************************************************************************)
HasSkillMd(content) == content \in {"usr", "rx", "ry"}

parse_skill_metadata_static(content) ==
    CASE content = "usr" -> [name |-> Some(<<"U">>), description |-> Some(<<"u">>)]
      [] content = "rx" -> [name |-> Some(<<"R">>), description |-> None]
      [] content = "ry" -> [name |-> None, description |-> Some(<<"y">>)]
      [] OTHER -> [name |-> None, description |-> None]

unwrap_or(opt, dflt) == IF opt = None THEN dflt ELSE opt[1]

\* (name, description) of a directory: from SKILL.md if present, else the
\* directory name and no description.
NameAndDescription(content, directory) ==
    IF HasSkillMd(content)
    THEN [name |-> unwrap_or(parse_skill_metadata_static(content).name, directory),
          description |-> parse_skill_metadata_static(content).description]
    ELSE [name |-> directory, description |-> None]

(***************************************************************************)
(* Paths of the file system.                                               *)
(***************************************************************************)
\* Path::exists / Path::is_dir of <mirror root>/<d>: follows a symlink into
\* the canonical store.
MirrorExists(ss, mir, a, d) ==
    /\ mir[a][d] # "none"
    /\ (mir[a][d] = "link" => ss[d] # "none")

is_symlink(mir, a, d) == mir[a][d] = "link"

\* What a recursive copy of <mirror root>/<d> reads.
MirrorContent(ss, mir, a, d) == IF mir[a][d] = "link" THEN ss[d] ELSE mir[a][d]

(***************************************************************************)
(* Index: load and save.                                                   *)
(***************************************************************************)
\* load_index: the records of the database collected into a map keyed by
\* directory (a later record with the same directory replaces an earlier one;
\* the order is the database's).
LoadedSkillMaps ==
    LET dirs == {r.directory : r \in db_skills}
    IN  {f \in [dirs -> db_skills] : \A d \in dirs : f[d].directory = d}

\* Mutant: nothing is written.
SaveNothing(db, skills) == db

\* Database::save_skill for every record of the index: upsert by id.
SaveSkills(db, skills) ==
    LET recs == {skills[d] : d \in DOMAIN skills}
    IN  {r \in db : \A n \in recs : n.id # r.id} \cup recs

NoCall ==
    [op |-> "none", dir |-> None, app |-> "-", enabled |-> FALSE,
     res |-> "ok", mig |-> "none", repo |-> None, rm_failed |-> {}, out |-> {},
     fetched |-> {}, sync_failed |-> {}, again |-> FALSE, skipped |-> {}]

(***************************************************************************)
(* One-time SSOT migration.                                                *)
(***************************************************************************)
ApplyBackfill(record, content) ==
    LET meta == parse_skill_metadata_static(content)
        n1 == IF trim(record.name) = <<>> \/ eq_ignore_ascii_case(record.name, record.directory)
              THEN unwrap_or(meta.name, record.directory)
              ELSE record.name
        d1 == IF record.description = None THEN meta.description ELSE record.description
    IN  IF HasSkillMd(content)
        THEN [record EXCEPT !.name = n1, !.description = d1]
        ELSE record

\* Branch taken when the index already tracks skills: populate the
\* canonical store for the tracked skills only.  Results
\* [ok, skills, ssot, db, pending].
MigrateTracked(skills, ss, mir) ==
    LET tracked == DOMAIN skills
        Cands(d) == IF skills[d].apps = {} THEN Apps ELSE skills[d].apps
        Found(d) == {a \in Cands(d) : MirrorExists(ss, mir, a, d)}
        Source(d) == CHOOSE a \in Found(d) : \A b \in Found(d) : AppPos(a) <= AppPos(b)
        ToCopy == {d \in tracked : ss[d] = "none" /\ Found(d) # {}}
        Copied(d) == MirrorContent(ss, mir, Source(d), d)
        okSsot == [d \in Dirs |-> IF d \in ToCopy THEN Copied(d) ELSE ss[d]]
        okSkills == [d \in tracked |->
                        IF d \in ToCopy THEN ApplyBackfill(skills[d], Copied(d))
                        ELSE skills[d]]
        Success ==
            [ok |-> TRUE, skills |-> okSkills, ssot |-> okSsot,
             db |-> SaveSkills(db_skills, okSkills), pending |-> FALSE]
        \* copy_dir_recursive fails for x after the copies for S were made
        Failure(x, S) ==
            [ok |-> FALSE, skills |-> skills,
             ssot |-> [d \in Dirs |-> IF d \in S THEN Copied(d) ELSE ss[d]],
             db |-> db_skills, pending |-> TRUE]
    IN  {Success} \cup
        UNION {{Failure(x, S) : S \in SUBSET (ToCopy \ {x})} : x \in ToCopy}

\* Mutant: dot directories are not skipped.
skipped_never(d) == FALSE

\* The entries of a mirror that the discovery skips.
skipped(d) == starts_with(d, <<".">>)

\* Branch taken when the index tracks nothing: claim every non-dot directory
\* of the three mirrors.
MigrateDiscover(skills, ss, mir) ==
    LET IsEntry(a, d) == MirrorExists(ss, mir, a, d) /\ ~skipped(d)
        FoundIn(d) == {a \in Apps : IsEntry(a, d)}
        discovered == {d \in Dirs : FoundIn(d) # {}}
        First(d) == CHOOSE a \in FoundIn(d) : \A b \in FoundIn(d) : AppPos(a) <= AppPos(b)
        ToCopy == {d \in discovered : ss[d] = "none"}
        Copied(d) == MirrorContent(ss, mir, First(d), d)
        okSsot == [d \in Dirs |-> IF d \in ToCopy THEN Copied(d) ELSE ss[d]]
        nd(d) == NameAndDescription(okSsot[d], d)
        Created(d) ==
            [id |-> LocalId(d), name |-> nd(d).name, description |-> nd(d).description,
             directory |-> d, repo_owner |-> None, repo_name |-> None,
             apps |-> FoundIn(d)]
        Merged(d) ==
            [skills[d] EXCEPT
                !.apps = @ \cup FoundIn(d),
                !.name = IF trim(@) = <<>> THEN nd(d).name ELSE @,
                !.description = IF @ = None THEN nd(d).description ELSE @]
        okSkills == [d \in DOMAIN skills \cup discovered |->
                        IF d \notin discovered THEN skills[d]
                        ELSE IF d \in DOMAIN skills THEN Merged(d) ELSE Created(d)]
        Success ==
            [ok |-> TRUE, skills |-> okSkills, ssot |-> okSsot,
             db |-> SaveSkills(db_skills, okSkills), pending |-> FALSE]
        \* The mirrors are read in application order, the entries of one
        \* mirror in any order: when the copy of x fails, everything first
        \* found in an earlier mirror has been copied, and any part S of what
        \* is first found in the same mirror.
        Before(x) == {d \in ToCopy : AppPos(First(d)) < AppPos(First(x))}
        Same(x) == {d \in ToCopy \ {x} : First(d) = First(x)}
        Failure(x, S) ==
            [ok |-> FALSE, skills |-> skills,
             ssot |-> [d \in Dirs |-> IF d \in Before(x) \cup S THEN Copied(d) ELSE ss[d]],
             db |-> db_skills, pending |-> TRUE]
    IN  {Success} \cup
        UNION {{Failure(x, S) : S \in SUBSET Same(x)} : x \in ToCopy}

\* The result of a migration run, with the kind of run it was.
Ran(r, kind) ==
    [ok |-> r.ok, skills |-> r.skills, ssot |-> r.ssot, db |-> r.db,
     pending |-> r.pending, mig |-> IF r.ok THEN kind ELSE kind \o "_failed"]

\* Mutant: the guard on a non-empty index is missing.
migrate_without_guard(skills) ==
    IF ~db_pending
    THEN {[ok |-> TRUE, mig |-> "none", skills |-> skills, ssot |-> ssot,
           db |-> db_skills, pending |-> db_pending]}
    ELSE {Ran(r, IF DOMAIN skills # {} THEN "tracked" ELSE "discover") :
            r \in MigrateDiscover(skills, ssot, mirror)}

\* Mutant: the pending flag is not cleared.
migrate_keeps_pending(skills) ==
    IF ~db_pending
    THEN {[ok |-> TRUE, mig |-> "none", skills |-> skills, ssot |-> ssot,
           db |-> db_skills, pending |-> db_pending]}
    ELSE {[Ran(r, IF DOMAIN skills # {} THEN "tracked" ELSE "discover")
              EXCEPT !.pending = TRUE] :
            r \in IF DOMAIN skills # {} THEN MigrateTracked(skills, ssot, mirror)
                  ELSE MigrateDiscover(skills, ssot, mirror)}

\* migrate_ssot_if_pending on a freshly loaded index: the possible results
\* (in-memory skills map, canonical store, database records and flag).
migrate_ssot_if_pending(skills) ==
    IF ~db_pending
    THEN {[ok |-> TRUE, mig |-> "none", skills |-> skills, ssot |-> ssot,
           db |-> db_skills, pending |-> db_pending]}
    ELSE IF DOMAIN skills # {}
         THEN {Ran(r, "tracked") : r \in MigrateTracked(skills, ssot, mirror)}
         ELSE {Ran(r, "discover") : r \in MigrateDiscover(skills, ssot, mirror)}

(***************************************************************************)
(* Materializer: sync / remove of one mirror.                              *)
(*                                                                         *)
(* The file system may fail.  One call runs in one environment: whether    *)
(* creating a symlink fails, the mirrors in which removing a path fails    *)
(* and the mirrors in which copying a directory fails.                     *)
(***************************************************************************)
BadSets(apps) == {B \in SUBSET apps : Cardinality(B) <= MaxBadApps}

Envs(apps) ==
    {e \in [sym_fail : BOOLEAN, rm_bad : SUBSET apps, copy_bad : SUBSET apps] :
        Cardinality(e.rm_bad) + Cardinality(e.copy_bad) <= MaxBadApps}

\* copy_dir_recursive(source, dest) into an absent mirror path.
CopyToMirror(content, a, env) ==
    IF a \in env.copy_bad
    THEN [ok |-> FALSE, cell |-> "none"]
    ELSE [ok |-> TRUE, cell |-> content]

\* create_symlink(source, dest) at an absent mirror path.
CreateSymlink(env) ==
    IF env.sym_fail
    THEN [ok |-> FALSE, cell |-> "none"]
    ELSE [ok |-> TRUE, cell |-> "link"]

\* Mutant: the path is reported removed and left in place.
remove_path_keeps(cell, a, rm_bad) == [ok |-> TRUE, cell |-> cell]

\* remove_path: unlink a symlink, recursively delete a directory.
remove_path(cell, a, rm_bad) ==
    IF a \in rm_bad
    THEN [ok |-> FALSE, cell |-> cell]
    ELSE [ok |-> TRUE, cell |-> "none"]

\* Mutant: the canonical directory is not looked for.
source_assumed(ss, d) == FALSE

\* sync_to_app_dir: the canonical directory of the skill does not exist.
source_missing(ss, d) == ss[d] = "none"

\* Mutant: every method falls back to a copy when the symlink fails.
sync_always_falls_back(d, a, method, ss, mir, env) ==
    LET cell == mir[a][d]
        removed == IF cell # "none" THEN remove_path(cell, a, env.rm_bad)
                   ELSE [ok |-> TRUE, cell |-> "none"]
        linked == CreateSymlink(env)
        copied == CopyToMirror(ss[d], a, env)
    IN  IF source_missing(ss, d) THEN [ok |-> FALSE, cell |-> cell]
        ELSE IF ~removed.ok THEN removed
        ELSE IF method = "Copy" THEN copied
        ELSE IF linked.ok THEN linked ELSE copied

\* sync_to_app_dir(directory, app, method): result and the new state of
\* <mirror root of app>/<directory>.
sync_to_app_dir(d, a, method, ss, mir, env) ==
    LET cell == mir[a][d]
        removed == IF cell # "none" THEN remove_path(cell, a, env.rm_bad)
                   ELSE [ok |-> TRUE, cell |-> "none"]
        linked == CreateSymlink(env)
        copied == CopyToMirror(ss[d], a, env)
    IN  IF source_missing(ss, d) THEN [ok |-> FALSE, cell |-> cell]
        ELSE IF ~removed.ok THEN removed
        ELSE CASE method = "Auto" -> IF linked.ok THEN linked ELSE copied
               [] method = "Symlink" -> linked
               [] method = "Copy" -> copied

\* Mutant: a symlink is followed and deleted recursively with the canonical
\* directory it points to.
target_deleted(cell, target) == IF cell = "link" THEN "none" ELSE target

\* remove_path, seen from the canonical store: a symlink is unlinked
\* (remove_file), a real directory of a mirror is deleted recursively; the
\* canonical directory of the same name is no part of either.
target_kept(cell, target) == target

\* Mutant: a path that is not there is an error.
remove_from_app_strict(d, a, mir, rm_bad) ==
    IF mir[a][d] # "none" THEN remove_path(mir[a][d], a, rm_bad)
    ELSE [ok |-> FALSE, cell |-> "none"]

\* Mutant: nothing is removed.
remove_from_app_skips(d, a, mir, rm_bad) == [ok |-> TRUE, cell |-> mir[a][d]]

\* remove_from_app(directory, app).
remove_from_app(d, a, mir, rm_bad) ==
    IF mir[a][d] # "none" THEN remove_path(mir[a][d], a, rm_bad)
    ELSE [ok |-> TRUE, cell |-> "none"]

\* sync_to_app(index, app): the skills enabled for the app are synced in the
\* order of the map, which is arbitrary; the first failure ends the loop.
\* Results: [ok, row, skipped] with row the new mirror of the app and skipped
\* the enabled skills the loop did not come to.
sync_to_app(skills, a, method, ss, mir, env) ==
    LET enabled == {d \in DOMAIN skills : a \in skills[d].apps}
        Out(d) == sync_to_app_dir(skills[d].directory, a, method, ss, mir, env)
        good == {d \in enabled : Out(d).ok}
        bad == enabled \ good
        Row(done) == [d \in Dirs |-> IF d \in done THEN Out(d).cell ELSE mir[a][d]]
    IN  IF bad = {}
        THEN {[ok |-> TRUE, row |-> Row(enabled), skipped |-> {}]}
        ELSE UNION {{[ok |-> FALSE, row |-> Row(S \cup {x}),
                      skipped |-> enabled \ (S \cup {x})] : S \in SUBSET good} :
                    x \in bad}

(***************************************************************************)
(* Resolution of a directory-or-id input.                                  *)
(***************************************************************************)
\* Mutant: the id is matched before the directory names.
resolve_id_first(skills, input) ==
    LET trimmed == trim(input)
        byCase == {d \in DOMAIN skills : to_lowercase(d) = to_lowercase(trimmed)}
        byId == {d \in DOMAIN skills : eq_ignore_ascii_case(skills[d].id, trimmed)}
    IN  IF trimmed = <<>> THEN {None}
        ELSE IF byId # {} THEN {Some(d) : d \in byId}
        ELSE IF trimmed \in DOMAIN skills THEN {Some(trimmed)}
        ELSE IF byCase # {} THEN {Some(d) : d \in byCase}
        ELSE {None}

\* The possible results (a find over the map returns any match).
resolve_directory_from_input(skills, input) ==
    LET trimmed == trim(input)
        byCase == {d \in DOMAIN skills : to_lowercase(d) = to_lowercase(trimmed)}
        byId == {d \in DOMAIN skills : eq_ignore_ascii_case(skills[d].id, trimmed)}
    IN  IF trimmed = <<>> THEN {None}
        ELSE IF trimmed \in DOMAIN skills THEN {Some(trimmed)}
        ELSE IF byCase # {} THEN {Some(d) : d \in byCase}
        ELSE IF byId # {} THEN {Some(d) : d \in byId}
        ELSE {None}

(***************************************************************************)
(* Initial states: a fresh installation, or one whose legacy skills.json   *)
(* has been imported into the database (store.rs), with any hand-made      *)
(* directories in the application mirrors.                                 *)
(***************************************************************************)
\* Record that load_skills_index_for_migration builds from a legacy
\* (Claude-only) store entry.
LegacyRecord(d) ==
    [id |-> LocalId(d), name |-> d, description |-> None, directory |-> d,
     repo_owner |-> None, repo_name |-> None, apps |-> {"claude"}]

LegacyDirs == {Dir_a, Dir_A}

UserPlacements(n) ==
    {U \in SUBSET (Apps \X UserDirs) : Cardinality(U) <= n}

InitWith(n, methods) ==
    /\ \E L \in SUBSET LegacyDirs :
          /\ Cardinality(L) <= MaxLegacy
          /\ \A d, e \in L : to_lowercase(d) = to_lowercase(e) => d = e
          /\ db_skills = {LegacyRecord(d) : d \in L}
          /\ db_pending \in (IF L = {} THEN BOOLEAN ELSE {TRUE})
    /\ db_repos = DefaultRepos
    /\ sync_method \in methods
    /\ ssot = [d \in Dirs |-> "none"]
    /\ \E U \in UserPlacements(n) :
          mirror = [a \in Apps |-> [d \in Dirs |->
                        IF <<a, d>> \in U THEN "usr" ELSE "none"]]
    /\ cfg = Installed
    /\ last = NoCall
    /\ calls = 0

Init == InitWith(MaxUserDirs, {"Auto"})

\* Initial states with one more hand-made directory and any sync method, for
\* the operations that read the mirrors (migration, scan, import, sync).
InitMigrate == InitWith(MaxUserDirs + 1, SyncMethods)

(***************************************************************************)
(* Operations.                                                             *)
(***************************************************************************)
Call(op) == [NoCall EXCEPT !.op = op]

repo_key_is(r, owner, name) == r.owner = owner /\ r.name = name

\* The repository table of the database, keyed by (owner, name): a saved
\* repository takes the place of the row with its key.
save_skill_repo(table, repo) ==
    {r \in table : ~repo_key_is(r, repo.owner, repo.name)} \cup {repo}

delete_skill_repo(table, owner, name) == {r \in table : ~repo_key_is(r, owner, name)}

\* "Ensure default repos exist (insert-missing only)".
init_default_skill_repos(table) ==
    table \cup {d \in DefaultRepos :
                   ~\E r \in table : repo_key_is(r, d.owner, d.name)}

\* The repositories load_index returns, the defaults inserted first.
LoadRepos(table) == init_default_skill_repos(table)

\* save_index: every repository of the index is saved.
RECURSIVE SaveRepos(_, _)
SaveRepos(table, repos) ==
    IF repos = {} THEN table
    ELSE LET r == CHOOSE x \in repos : TRUE
         IN  SaveRepos(save_skill_repo(table, r), repos \ {r})

list_installed ==
    \E skills \in LoadedSkillMaps :
      \E m \in migrate_ssot_if_pending(skills) :
        /\ db_skills' = m.db
        /\ db_pending' = m.pending
        /\ ssot' = m.ssot
        /\ last' = [Call("list_installed") EXCEPT
                        !.res = IF m.ok THEN "ok" ELSE "io_error", !.mig = m.mig,
                        !.out = IF m.ok THEN {m.skills[d] : d \in DOMAIN m.skills}
                                ELSE {}]
        /\ db_repos' = LoadRepos(db_repos)
        /\ UNCHANGED <<sync_method, cfg, mirror>>

\* Inputs a user gives where a directory name or an id is expected.
DirInputs == {Dir_a, Dir_A, LocalId(Dir_a)}

\* Mutant: the saved index replaces the records by the one that changed.
toggle_saves_changed_only(db, updated, ok) ==
    IF ok THEN {updated[d] : d \in DOMAIN updated} \ db ELSE db

\* Mutant: the index is saved whatever the file system step returned.
toggle_saves_always(db, updated, ok) == SaveSkills(db, updated)

\* toggle_app: the index is saved after the file system step, which returns
\* early on an error.
toggle_saves(db, updated, ok) == IF ok THEN SaveSkills(db, updated) ELSE db

toggle_app(inputs) ==
    \E input \in inputs, a \in Apps, enabled \in BOOLEAN :
    \E skills \in LoadedSkillMaps :
    \E r \in resolve_directory_from_input(skills, input) :
      LET call == [Call("toggle_app") EXCEPT
                      !.app = a, !.enabled = enabled, !.dir = r,
                      \* the call before was the same call and succeeded
                      !.again = /\ last.op = "toggle_app" /\ last.res = "ok"
                                /\ last.dir = r /\ last.app = a
                                /\ last.enabled = enabled]
      IN  IF r = None
          THEN /\ last' = [Call("toggle_app") EXCEPT !.res = "not_found"]
               /\ UNCHANGED <<db_skills, db_repos, db_pending, sync_method, cfg, ssot, mirror>>
          ELSE
            \E env \in Envs({a}) :
              LET dir == r[1]
                  record == [skills[dir] EXCEPT
                                !.apps = IF enabled THEN @ \cup {a} ELSE @ \ {a}]
                  o == IF enabled
                       THEN sync_to_app_dir(record.directory, a, sync_method, ssot, mirror, env)
                       ELSE remove_from_app(record.directory, a, mirror, env.rm_bad)
                  updated == [skills EXCEPT ![dir] = record]
                  cell == mirror[a][record.directory]
                  \* remove_path was called on the mirror path and succeeded
                  removed == /\ cell # "none"
                             /\ a \notin env.rm_bad
                             /\ (enabled => ~source_missing(ssot, record.directory))
              IN  /\ mirror' = [mirror EXCEPT ![a][record.directory] = o.cell]
                  /\ ssot' = IF removed
                             THEN [ssot EXCEPT ![record.directory] = target_kept(cell, @)]
                             ELSE ssot
                  /\ db_skills' = toggle_saves(db_skills, updated, o.ok)
                  /\ last' = [call EXCEPT !.res = IF o.ok THEN "ok" ELSE "io_error"]
                  /\ UNCHANGED <<db_repos, db_pending, sync_method, cfg>>

\* Mutant: the first mirror that cannot be removed ends the call.
uninstall_stops_on(failed) == failed = {}

\* uninstall: a mirror that cannot be removed is logged and the call goes on.
uninstall_goes_on(failed) == TRUE

\* Mutant: the record is deleted before the canonical directory is removed.
uninstall_deletes_first(removed) == TRUE

\* uninstall: the record is deleted once the canonical directory is removed
\* (a failed removal returns early).
uninstall_deletes(removed) == removed

uninstall(inputs) ==
    \E input \in inputs :
    \E skills \in LoadedSkillMaps :
    \E r \in resolve_directory_from_input(skills, input) :
      LET call == [Call("uninstall") EXCEPT !.dir = r]
      IN  IF r = None
          THEN /\ last' = [call EXCEPT !.res = "not_found"]
               /\ UNCHANGED <<db_skills, db_repos, db_pending, sync_method, cfg, ssot, mirror>>
          ELSE
            \E rm_bad \in BadSets(Apps), ssot_rm \in {"ok", "fail"} :
              LET dir == r[1]
                  record == skills[dir]
                  Rm(a) == remove_from_app(dir, a, mirror, rm_bad)
                  failed == {a \in Apps : ~Rm(a).ok}
                  removed == /\ uninstall_goes_on(failed)
                             /\ (ssot[dir] = "none" \/ ssot_rm = "ok")
              IN  /\ mirror' = [a \in Apps |-> [mirror[a] EXCEPT ![dir] = Rm(a).cell]]
                  /\ ssot' = IF ssot[dir] = "none" \/ ~uninstall_goes_on(failed) THEN ssot
                             ELSE [ssot EXCEPT ![dir] =
                                      IF ssot_rm = "ok" THEN "none" ELSE @]
                  /\ db_skills' = IF uninstall_deletes(removed)
                                  THEN {x \in db_skills : x.id # record.id}
                                  ELSE db_skills
                  /\ last' = [call EXCEPT !.res = IF removed THEN "ok" ELSE "io_error",
                                          !.rm_failed = failed]
                  /\ UNCHANGED <<db_repos, db_pending, sync_method, cfg>>

(***************************************************************************)
(* Discovery and install.                                                  *)
(***************************************************************************)
Discoverable(rid, d) ==
    LET meta == parse_skill_metadata_static(RemoteContent(rid))
    IN  [key |-> DiscoverKey(rid.owner, rid.name, d),
         name |-> unwrap_or(meta.name, d),
         description |-> unwrap_or(meta.description, <<>>),
         directory |-> d, repo_owner |-> rid.owner, repo_name |-> rid.name]

\* fetch_repo_skills of a repository whose download succeeds.
fetch_repo_skills(rid) == {Discoverable(rid, d) : d \in RemoteSkillDirs(rid)}

DedupKey(s) == to_lowercase(s.repo_owner) \o <<"|">> \o to_lowercase(s.key)

\* deduplicate_discoverable keeps the first skill of each key; the order
\* within a repository is the order of the directory scan, so any one
\* skill of a key may be the one kept.
deduplicate_discoverable(S) ==
    {T \in SUBSET S :
        /\ \A x \in S : \E t \in T : DedupKey(t) = DedupKey(x)
        /\ \A t, u \in T : DedupKey(t) = DedupKey(u) => t = u}

\* Mutant: one failed fetch fails the discovery of every repository.
discover_all_or_nothing(repos, fetched) ==
    LET enabled == {[owner |-> r.owner, name |-> r.name] : r \in {q \in repos : q.enabled}}
    IN  IF enabled \subseteq fetched
        THEN deduplicate_discoverable(UNION {fetch_repo_skills(rid) : rid \in enabled})
        ELSE {{}}

\* discover_available(repos) when exactly the fetches of `fetched` succeed.
discover_available(repos, fetched) ==
    LET enabled == {[owner |-> r.owner, name |-> r.name] : r \in {q \in repos : q.enabled}}
    IN  deduplicate_discoverable(UNION {fetch_repo_skills(rid) : rid \in enabled \cap fetched})

\* Mutant: of several directory matches the first is taken.
resolve_first_match(disc, spec) ==
    LET exact == {x \in disc : x.key = spec}
        matches == {x \in disc : eq_ignore_ascii_case(x.directory, spec)}
    IN  IF exact # {} THEN {[res |-> "ok", skill |-> Some(x)] : x \in exact}
        ELSE IF matches = {} THEN {[res |-> "not_found", skill |-> None]}
        ELSE {[res |-> "ok", skill |-> Some(x)] : x \in matches}

\* resolve_install_spec against one discovery result.
resolve_install_spec(disc, spec) ==
    LET exact == {x \in disc : x.key = spec}
        matches == {x \in disc : eq_ignore_ascii_case(x.directory, spec)}
    IN  IF exact # {} THEN {[res |-> "ok", skill |-> Some(x)] : x \in exact}
        ELSE IF matches = {} THEN {[res |-> "not_found", skill |-> None]}
        ELSE IF Cardinality(matches) = 1 THEN {[res |-> "ok", skill |-> Some(x)] : x \in matches}
        ELSE {[res |-> "ambiguous", skill |-> None]}

\* Path::file_name: the text after the last separator.
RECURSIVE file_name(_)
file_name(s) ==
    IF \E i \in DOMAIN s : s[i] = "/"
    THEN file_name(Tail(s))
    ELSE s

same_repo(existing, discoverable) ==
    /\ existing.repo_owner = Some(discoverable.repo_owner)
    /\ existing.repo_name = Some(discoverable.repo_name)

\* Mutant: a record imported from a mirror is not protected.
conflict_without_local(existing, discoverable) ==
    /\ ~same_repo(existing, discoverable)
    /\ \/ existing.repo_owner # None
       \/ existing.repo_name # None

\* The directory-conflict test of install.
conflict(existing, discoverable) ==
    /\ ~same_repo(existing, discoverable)
    /\ \/ existing.repo_owner # None
       \/ existing.repo_name # None
       \/ starts_with(existing.id, LocalPrefix)

\* Mutant: the record is saved with the flag before the conflict is reported.
conflict_saves_flag(db, existing, a) ==
    {r \in db : r.id # existing.id} \cup {[existing EXCEPT !.apps = @ \cup {a}]}

\* What the database holds when install returns the conflict error.
conflict_return(db, existing, a) == db

\* Mutant: the record is rebuilt for the one application.
reinstall_only(existing, a) == [existing EXCEPT !.apps = {a}]

\* The record of a skill installed again: the flag of the application is set.
reinstall(existing, a) == [existing EXCEPT !.apps = @ \cup {a}]

\* install after the spec has been resolved: conflict check, re-install of
\* an installed skill, or first installation.
InstallResolved(m, discoverable, install_name, rid, a, call) ==
    LET skills == m.skills
        exists == install_name \in DOMAIN skills
        existing == skills[install_name]
        installed ==
            [id |-> discoverable.key, name |-> discoverable.name,
             description |-> IF trim(discoverable.description) = <<>> THEN None
                             ELSE Some(discoverable.description),
             directory |-> install_name,
             repo_owner |-> Some(discoverable.repo_owner),
             repo_name |-> Some(discoverable.repo_name),
             apps |-> {a}]
        Insert(rec) == [d \in DOMAIN skills \cup {install_name} |->
                            IF d = install_name THEN rec ELSE skills[d]]
        \* save_index, then sync_to_app_dir
        SaveAndSync(rec, ss) ==
            \E env \in Envs({a}) :
              LET o == sync_to_app_dir(install_name, a, sync_method, ss, mirror, env)
              IN  /\ db_skills' = SaveSkills(m.db, Insert(rec))
                  /\ ssot' = ss
                  /\ mirror' = [mirror EXCEPT ![a][install_name] = o.cell]
                  /\ last' = [call EXCEPT !.res = IF o.ok THEN "ok" ELSE "io_error"]
        Abort(res, db) ==
            /\ db_skills' = db
            /\ ssot' = m.ssot
            /\ mirror' = mirror
            /\ last' = [call EXCEPT !.res = res]
    IN  /\ db_pending' = m.pending
        /\ UNCHANGED <<db_repos, sync_method, cfg>>
        /\ IF exists
           THEN IF conflict(existing, discoverable)
                THEN Abort("conflict", conflict_return(m.db, existing, a))
                ELSE SaveAndSync(reinstall(existing, a), m.ssot)
           ELSE IF m.ssot[install_name] # "none"
                THEN SaveAndSync(installed, m.ssot)
                ELSE
                  \E download \in {"ok", "fail"}, copy \in {"ok", "fail"} :
                    LET found == {d \in RemoteSkillDirs(rid) :
                                    eq_ignore_ascii_case(d, trim(install_name))}
                    IN  IF download = "fail" THEN Abort("download_failed", m.db)
                        ELSE IF found = {} THEN Abort("skill_dir_not_found", m.db)
                        ELSE IF copy = "fail" THEN Abort("copy_failed", m.db)
                        ELSE SaveAndSync(installed,
                                 [m.ssot EXCEPT ![install_name] = RemoteContent(rid)])

InstallSpecs ==
    {DiscoverKey(RepoX.owner, RepoX.name, Dir_a),
     DiscoverKey(RepoY.owner, RepoY.name, Dir_a), <<" ", "A">>}

install(specs) ==
    \E input \in specs, a \in Apps :
      LET spec == trim(input)
          call == Call("install")
          Fail(res, mig) ==
              /\ last' = [call EXCEPT !.res = res, !.mig = mig]
      IN  IF spec = <<>>
          THEN /\ Fail("invalid_input", "none")
               /\ UNCHANGED <<db_skills, db_repos, db_pending, sync_method, cfg, ssot, mirror>>
          ELSE
            \E skills0 \in LoadedSkillMaps :
            \E m \in migrate_ssot_if_pending(skills0) :
              IF ~m.ok
              THEN /\ Fail("io_error", m.mig)
                   /\ db_skills' = m.db /\ db_pending' = m.pending /\ ssot' = m.ssot
                   /\ UNCHANGED <<db_repos, sync_method, cfg, mirror>>
              ELSE
                \E fetched \in SUBSET RepoIds :
                \E disc \in discover_available(db_repos, fetched) :
                \E rs \in resolve_install_spec(disc, spec) :
                  IF rs.res # "ok"
                  THEN /\ Fail(rs.res, m.mig)
                       /\ db_skills' = m.db /\ db_pending' = m.pending /\ ssot' = m.ssot
                       /\ UNCHANGED <<db_repos, sync_method, cfg, mirror>>
                  ELSE
                    LET discoverable == rs.skill[1]
                        install_name == file_name(discoverable.directory)
                        rid == [owner |-> discoverable.repo_owner,
                                name |-> discoverable.repo_name]
                        call2 == [call EXCEPT !.dir = Some(install_name), !.app = a,
                                              !.repo = Some(rid), !.mig = m.mig]
                    IN  InstallResolved(m, discoverable, install_name, rid, a, call2)

(***************************************************************************)
(* Unmanaged scan and import.                                              *)
(***************************************************************************)
AppStr(a) == a

\* found_in of a directory: the applications in whose mirror it is a
\* directory, in the order the mirrors are read.
FoundInList(S) == SelectSeq(AppList, LAMBDA a : a \in S)

\* Mutant: the directories of the index are not skipped.
unmanaged_with_managed(managed, a, d) ==
    /\ MirrorExists(ssot, mirror, a, d)
    /\ ~starts_with(d, <<".">>)

\* Whether the scan of the mirror of a lists directory d.
unmanaged(managed, a, d) ==
    /\ MirrorExists(ssot, mirror, a, d)
    /\ ~starts_with(d, <<".">>)
    /\ d \notin managed

scan_unmanaged ==
    \E skills \in LoadedSkillMaps :
      LET managed == DOMAIN skills
          FoundIn(d) == {a \in Apps : unmanaged(managed, a, d)}
          First(d) == CHOOSE a \in FoundIn(d) : \A b \in FoundIn(d) : AppPos(a) <= AppPos(b)
          Entry(d) ==
              LET nd == NameAndDescription(MirrorContent(ssot, mirror, First(d), d), d)
              IN  [directory |-> d, name |-> nd.name, description |-> nd.description,
                   found_in |-> FoundInList(FoundIn(d))]
      IN  /\ last' = [Call("scan_unmanaged") EXCEPT
                         !.out = {Entry(d) : d \in {e \in Dirs : FoundIn(e) # {}}}]
          /\ UNCHANGED <<db_skills, db_repos, db_pending, sync_method, cfg, ssot, mirror>>

\* Mutant: the name read from SKILL.md replaces the name of the record.
name_replaced(name) == TRUE

\* import_from_apps: the name of the record is filled when it is blank.
name_unset(name) == trim(name) = <<>>

\* SkillApps::merge_enabled: the flags found are added.
merge_enabled(apps, found) == apps \cup found

\* One iteration of the loop of import_from_apps over the requested names:
\* the possible results [ok, skills, ssot] of importing the names of dirs
\* from position i on.
RECURSIVE ImportFrom(_, _, _, _)
ImportFrom(dirs, i, skills, ss) ==
    IF i > Len(dirs) THEN {[ok |-> TRUE, skills |-> skills, ssot |-> ss]}
    ELSE
      LET dir_name == dirs[i]
          found_in == {a \in Apps : MirrorExists(ss, mirror, a, dir_name)}
          src == CHOOSE a \in found_in : \A b \in found_in : AppPos(a) <= AppPos(b)
          mustCopy == ss[dir_name] = "none"
          ss1 == IF mustCopy
                 THEN [ss EXCEPT ![dir_name] = MirrorContent(ss, mirror, src, dir_name)]
                 ELSE ss
          nd == NameAndDescription(ss1[dir_name], dir_name)
          fresh == [id |-> LocalId(dir_name), name |-> nd.name,
                    description |-> nd.description, directory |-> dir_name,
                    repo_owner |-> None, repo_name |-> None, apps |-> {}]
          entry == IF dir_name \in DOMAIN skills THEN skills[dir_name] ELSE fresh
          record == [entry EXCEPT
                        !.apps = merge_enabled(@, found_in),
                        !.description = IF @ = None THEN nd.description ELSE @,
                        !.name = IF name_unset(@) THEN nd.name ELSE @]
          skills1 == [d \in DOMAIN skills \cup {dir_name} |->
                         IF d = dir_name THEN record ELSE skills[d]]
      IN  IF found_in = {} THEN ImportFrom(dirs, i + 1, skills, ss)
          ELSE ImportFrom(dirs, i + 1, skills1, ss1) \cup
               (IF mustCopy THEN {[ok |-> FALSE, skills |-> skills, ssot |-> ss]} ELSE {})

ImportInputs ==
    {q \in UNION {[1..n -> Dirs] : n \in 0..MaxImport} :
        \A i, j \in DOMAIN q : q[i] = q[j] => i = j}

import_from_apps(inputs) ==
    \E directories \in inputs :
    \E skills \in LoadedSkillMaps :
    \E r \in ImportFrom(directories, 1, skills, ssot) :
        /\ ssot' = r.ssot
        /\ db_skills' = IF r.ok THEN SaveSkills(db_skills, r.skills) ELSE db_skills
        /\ last' = [Call("import_from_apps") EXCEPT
                       !.res = IF r.ok THEN "ok" ELSE "io_error"]
        /\ UNCHANGED <<db_repos, db_pending, sync_method, cfg, mirror>>

(***************************************************************************)
(* Sync of every enabled skill.                                            *)
(***************************************************************************)
\* Mutant: no error ends the loop.
sync_error_ignored(r) == FALSE

\* The error of sync_to_app is returned at once.
sync_error_returned(r) == ~r.ok

\* The loop over the applications of targets (a sequence): the first
\* failing application ends it.  Results [ok, failed, mirror].
RECURSIVE SyncApps(_, _, _, _, _, _)
SyncApps(targets, i, skills, ss, mir, env) ==
    IF i > Len(targets) THEN {[ok |-> TRUE, failed |-> {}, mirror |-> mir]}
    ELSE UNION {IF ~sync_error_returned(r)
                THEN SyncApps(targets, i + 1, skills, ss,
                              [mir EXCEPT ![targets[i]] = r.row], env)
                ELSE {[ok |-> FALSE, failed |-> {targets[i]},
                       mirror |-> [mir EXCEPT ![targets[i]] = r.row]]} :
                r \in sync_to_app(skills, targets[i], sync_method, ss, mir, env)}

sync_all_enabled ==
    \E target \in {Some(a) : a \in Apps} \cup {None} :
    \E skills0 \in LoadedSkillMaps :
    \E m \in migrate_ssot_if_pending(skills0) :
      LET call == [Call("sync_all_enabled") EXCEPT
                      !.app = IF target = None THEN "-" ELSE target[1], !.mig = m.mig]
          targets == IF target = None THEN AppList ELSE target
      IN  /\ db_skills' = m.db
          /\ db_pending' = m.pending
          /\ UNCHANGED <<db_repos, sync_method, cfg>>
          /\ IF ~m.ok
             THEN /\ ssot' = m.ssot
                  /\ mirror' = mirror
                  /\ last' = [call EXCEPT !.res = "io_error"]
             ELSE \E env \in Envs(Apps) :
                  \E r \in SyncApps(targets, 1, m.skills, m.ssot, mirror, env) :
                    /\ ssot' = m.ssot
                    /\ mirror' = r.mirror
                    /\ last' = [call EXCEPT !.res = IF r.ok THEN "ok" ELSE "io_error",
                                            !.sync_failed = r.failed]

\* Mutant: the errors of the migration and of the syncs are returned.
best_effort_propagates(m_ok, failed) ==
    IF m_ok /\ failed = {} THEN "ok" ELSE "io_error"

\* What sync_all_enabled_best_effort returns.
best_effort_returns(m_ok, failed) == "ok"

\* The loop of sync_all_enabled_best_effort: every application is synced, a
\* failure is logged.  Results [failed, skipped, mirror].
RECURSIVE SyncEveryApp(_, _, _, _, _)
SyncEveryApp(i, skills, ss, mir, env) ==
    IF i > Len(AppList) THEN {[failed |-> {}, skipped |-> {}, mirror |-> mir]}
    ELSE UNION {{[failed |-> t.failed \cup (IF r.ok THEN {} ELSE {AppList[i]}),
                  skipped |-> t.skipped \cup {<<AppList[i], d>> : d \in r.skipped},
                  mirror |-> t.mirror] :
                    t \in SyncEveryApp(i + 1, skills, ss,
                                       [mir EXCEPT ![AppList[i]] = r.row], env)} :
                r \in sync_to_app(skills, AppList[i], sync_method, ss, mir, env)}

\* The result of the migration is dropped: after a failed migration the index
\* in memory is the loaded one.
sync_all_enabled_best_effort ==
    \E skills0 \in LoadedSkillMaps :
    \E m \in migrate_ssot_if_pending(skills0) :
    \E env \in Envs(Apps) :
    \E r \in SyncEveryApp(1, m.skills, m.ssot, mirror, env) :
        /\ db_skills' = m.db
        /\ db_pending' = m.pending
        /\ ssot' = m.ssot
        /\ mirror' = r.mirror
        /\ last' = [Call("sync_all_enabled_best_effort") EXCEPT
                        !.res = best_effort_returns(m.ok, r.failed),
                        !.mig = m.mig, !.sync_failed = r.failed,
                        !.skipped = r.skipped]
        /\ UNCHANGED <<db_repos, sync_method, cfg>>

(***************************************************************************)
(* Resolution of inputs, on indexes whose ids are arbitrary (an index       *)
(* imported as it was from a versioned skills.json).                        *)
(***************************************************************************)
MaxResolve == 2

ImportedRecord(d, id) ==
    [id |-> id, name |-> d, description |-> None, directory |-> d,
     repo_owner |-> None, repo_name |-> None, apps |-> {"claude"}]

ImportedIds == {LocalId(Dir_a), Dir_A, <<".", "D">>}

InitResolve ==
    /\ \E S \in SUBSET {ImportedRecord(d, id) : d \in Dirs, id \in ImportedIds} :
          /\ Cardinality(S) <= MaxResolve
          /\ \A r, q \in S : (r.directory = q.directory \/ r.id = q.id) => r = q
          /\ db_skills = S
          /\ ssot = [d \in Dirs |-> IF d \in {r.directory : r \in S} THEN "usr" ELSE "none"]
          /\ mirror = [a \in Apps |-> [d \in Dirs |->
                          IF a = "claude" /\ d \in {r.directory : r \in S}
                          THEN "link" ELSE "none"]]
    /\ db_pending = FALSE
    /\ db_repos = DefaultRepos
    /\ sync_method = "Auto"
    /\ cfg = Installed
    /\ last = NoCall
    /\ calls = 0

ResolveInputs ==
    {Dir_a, <<" ", "A">>, <<".", "D", " ">>, LocalId(Dir_a),
     <<"L", "O", "C", "A", "L", ":", "A">>, <<" ">>}

\* resolve_directory_from_input on its own: the input and what it resolves to.
resolve_input ==
    \E input \in ResolveInputs :
    \E skills \in LoadedSkillMaps :
    \E r \in resolve_directory_from_input(skills, input) :
        /\ last' = [Call("resolve") EXCEPT !.dir = r, !.out = {input}]
        /\ UNCHANGED <<db_skills, db_repos, db_pending, sync_method, cfg, ssot, mirror>>

NextResolve ==
    /\ calls < MaxCalls
    /\ calls' = calls + 1
    /\ \/ resolve_input
       \/ toggle_app(ResolveInputs)
       \/ uninstall(ResolveInputs)

SpecResolve == InitResolve /\ [][NextResolve]_vars

(***************************************************************************)
(* Repositories and discovery.  The fetches of one discovery run as         *)
(* concurrent tasks: they complete one by one, in any order, each with      *)
(* success or failure, and the discovery finishes when all have completed.  *)
(***************************************************************************)
InitDiscover ==
    /\ db_skills = {}
    /\ db_pending = FALSE
    /\ db_repos = DefaultRepos
    /\ sync_method = "Auto"
    /\ ssot = [d \in Dirs |-> "none"]
    /\ mirror = [a \in Apps |-> [d \in Dirs |-> "none"]]
    /\ cfg = Installed
    /\ last = NoCall
    /\ calls = 0

RepoInputs ==
    {[owner |-> r.owner, name |-> r.name, branch |-> "main", enabled |-> e] :
        r \in RepoIds, e \in BOOLEAN}

entry_kept(repos, pos, repo) == repos

\* index.repos[pos] = repo
entry_replaced(repos, pos, repo) == (repos \ {pos}) \cup {repo}

\* The index's repositories after upsert_repo's change: the entry with the
\* key is replaced, or the repository is pushed.
upsert_entry(repos, repo) ==
    LET found == {r \in repos : repo_key_is(r, repo.owner, repo.name)}
    IN  IF found # {}
        THEN {entry_replaced(repos, pos, repo) : pos \in found}
        ELSE {repos \cup {repo}}

upsert_repo(inputs) ==
    \E repo \in inputs :
      LET loaded == LoadRepos(db_repos)
      IN  \E repos \in upsert_entry(loaded, repo) :
            /\ db_repos' = SaveRepos(loaded, repos)
            /\ last' = [Call("upsert_repo") EXCEPT
                           !.out = {[repo |-> repo,
                                     existed |-> \E r \in loaded :
                                         repo_key_is(r, repo.owner, repo.name)]}]
            /\ UNCHANGED <<db_skills, db_pending, sync_method, cfg, ssot, mirror>>

EnabledRepos(repos) ==
    {[owner |-> r.owner, name |-> r.name] : r \in {q \in repos : q.enabled}}

\* discover_available: the tasks are created, one for each enabled repository.
discover_start ==
    /\ last' = Call("discovering")
    /\ UNCHANGED <<db_skills, db_repos, db_pending, sync_method, cfg, ssot, mirror>>

\* One task of join_all completes.
fetch_done ==
    /\ last.op = "discovering"
    /\ \E rid \in EnabledRepos(db_repos) \ {t.repo : t \in last.out} :
       \E ok \in BOOLEAN :
          last' = [last EXCEPT !.out = @ \cup {[repo |-> rid, ok |-> ok]}]
    /\ UNCHANGED <<db_skills, db_repos, db_pending, sync_method, cfg, ssot, mirror>>

\* join_all has every result: they are aggregated.
discover_finish ==
    /\ last.op = "discovering"
    /\ {t.repo : t \in last.out} = EnabledRepos(db_repos)
    /\ LET fetched == {t.repo : t \in {u \in last.out : u.ok}}
       IN  \E disc \in discover_available(db_repos, fetched) :
             last' = [Call("discover_available") EXCEPT
                         !.out = disc, !.fetched = fetched]
    /\ UNCHANGED <<db_skills, db_repos, db_pending, sync_method, cfg, ssot, mirror>>

SpecInputs == InstallSpecs \cup {<<"b">>}

\* resolve_install_spec on its own: the spec, the discovery result it was
\* resolved against and what it resolved to.
resolve_spec ==
    \E input \in SpecInputs :
    \E fetched \in SUBSET RepoIds :
    \E disc \in discover_available(db_repos, fetched) :
    \E rs \in resolve_install_spec(disc, trim(input)) :
        /\ last' = [Call("resolve_spec") EXCEPT
                       !.res = rs.res,
                       !.out = {[spec |-> trim(input), disc |-> disc, skill |-> rs.skill]}]
        /\ UNCHANGED <<db_skills, db_repos, db_pending, sync_method, cfg, ssot, mirror>>

NextDiscover ==
    \/ /\ calls < MaxCalls
       /\ calls' = calls + 1
       /\ last.op # "discovering"
       /\ \/ upsert_repo(RepoInputs)
          \/ discover_start
          \/ resolve_spec
          \/ install(SpecInputs)
    \/ /\ UNCHANGED calls
       /\ \/ fetch_done
          \/ discover_finish

SpecDiscover == InitDiscover /\ [][NextDiscover]_vars

(***************************************************************************)
(* Download of a repository archive: branch candidates and errors.          *)
(***************************************************************************)
Branch_main == <<"m", "a", "i", "n">>
Branch_master == <<"m", "a", "s", "t", "e", "r">>
Branch_dev == <<"d", "e", "v">>

\* repo.branch as configured.
BranchInputs == {<<>>, <<" ">>, Branch_dev, Branch_main}

\* What one download_and_extract of a candidate URL meets: success, a
\* non-2xx status, a failed request, an archive that cannot be read.
Outcomes == {"ok", "403", "404", "429", "500", "send_failed", "zip_invalid"}

\* The error download_and_extract returns for a failed candidate.
CandidateError(o) ==
    CASE o = "403" -> [code |-> "DOWNLOAD_FAILED", status |-> Some(o), hint |-> Some("http403")]
      [] o = "404" -> [code |-> "DOWNLOAD_FAILED", status |-> Some(o), hint |-> Some("http404")]
      [] o = "429" -> [code |-> "DOWNLOAD_FAILED", status |-> Some(o), hint |-> Some("http429")]
      [] o = "500" -> [code |-> "DOWNLOAD_FAILED", status |-> Some(o), hint |-> Some("checkNetwork")]
      [] o = "send_failed" -> [code |-> "skills.download_failed", status |-> None, hint |-> None]
      [] OTHER -> [code |-> "skills.zip_invalid", status |-> None, hint |-> None]

\* The error for the case that no candidate left one.
FallbackError == [code |-> "DOWNLOAD_FAILED", status |-> None, hint |-> Some("checkNetwork")]

TempdirError == [code |-> "skills.tempdir_failed", status |-> None, hint |-> None]

\* Mutant: the configured branch is tried after main and master.
BranchesDefaultFirst(branch) ==
    IF trim(branch) = <<>> THEN <<Branch_main, Branch_master>>
    ELSE <<Branch_main, Branch_master, branch>>

\* The branch candidates of download_repo.
Branches(branch) ==
    IF trim(branch) = <<>> THEN <<Branch_main, Branch_master>>
    ELSE <<branch, Branch_main, Branch_master>>

\* Mutant: the error of the first failed candidate is kept.
keep_first_error(last_error, e) == IF last_error = None THEN Some(e) ELSE last_error

\* last_error = Some(e)
keep_last_error(last_error, e) == Some(e)

\* The loop over the candidates from position i on; outcomes[i] is what the
\* i-th attempt meets.  Result [ok, attempted, error].
RECURSIVE TryBranches(_, _, _, _)
TryBranches(branches, i, outcomes, last_error) ==
    IF i > Len(branches)
    THEN [ok |-> FALSE, attempted |-> branches,
          error |-> Some(unwrap_or(last_error, FallbackError))]
    ELSE IF outcomes[i] = "ok"
         THEN [ok |-> TRUE, attempted |-> SubSeq(branches, 1, i), error |-> None]
         ELSE TryBranches(branches, i + 1, outcomes,
                          keep_last_error(last_error, CandidateError(outcomes[i])))

download_repo(branch, tempdir_ok, outcomes) ==
    IF ~tempdir_ok
    THEN [ok |-> FALSE, attempted |-> <<>>, error |-> Some(TempdirError)]
    ELSE TryBranches(Branches(branch), 1, outcomes, None)

\* One download of a repository.
download ==
    \E branch \in BranchInputs, tempdir_ok \in BOOLEAN :
    \E outcomes \in [1..3 -> Outcomes] :
      LET r == download_repo(branch, tempdir_ok, outcomes)
      IN  /\ last' = [Call("download_repo") EXCEPT
                         !.res = IF r.ok THEN "ok" ELSE "download_failed",
                         !.out = {[branch |-> branch, tempdir_ok |-> tempdir_ok,
                                   outcomes |-> outcomes, attempted |-> r.attempted,
                                   error |-> r.error]}]
          /\ UNCHANGED <<db_skills, db_repos, db_pending, sync_method, cfg, ssot, mirror>>

MaxDownloads == 1

NextDownload ==
    /\ calls < MaxDownloads
    /\ calls' = calls + 1
    /\ download

SpecDownload == InitDiscover /\ [][NextDownload]_vars

\* ---------------------------------------------------------------------
\* Scanning an extracted repository for package roots (scan_skill_dirs)
\* ---------------------------------------------------------------------

\* Directory names: a plain one, a hidden one, the two build directories and
\* a name that only begins like one of them.
Name_s == <<"s">>
Name_git == <<".", "g">>
Name_node_modules == <<"n", "o", "d", "e", "_", "m", "o", "d", "u", "l", "e", "s">>
Name_target == <<"t", "a", "r", "g", "e", "t">>
Name_targets == <<"t", "a", "r", "g", "e", "t", "s">>
EntryNames == {Name_s, Name_git, Name_node_modules, Name_target, Name_targets}

MaxDepth == 2

\* A directory is its path below root, a sequence of names; root is <<>>.
RelPaths == UNION {[1..n -> EntryNames] : n \in 1..MaxDepth}

Prefixes(p) == {SubSeq(p, 1, n) : n \in 0..Len(p)}

\* The trees: root and the directories on the way to at most two chosen ones.
Trees == {UNION {Prefixes(p), Prefixes(q)} : p \in RelPaths, q \in RelPaths} \cup {{<<>>}}

\* The sub-directories read_dir(dir) yields.
Entries(tree, dir) == {d \in tree : Len(d) = Len(dir) + 1 /\ SubSeq(d, 1, Len(dir)) = dir}

skip_dot_only(name) == name[1] = "."

\* The entries the scan does not descend into.
skip_entry(name) == name[1] = "." \/ name = Name_node_modules \/ name = Name_target

\* The walk from dir: a directory other than root that holds SKILL.md is a
\* result and is not read; otherwise its sub-directories are pushed, the
\* skipped names excepted.
RECURSIVE ScanFrom(_, _, _)
ScanFrom(tree, markers, dir) ==
    IF dir # <<>> /\ dir \in markers THEN {dir}
    ELSE UNION {ScanFrom(tree, markers, d) :
                d \in {e \in Entries(tree, dir) : ~skip_entry(e[Len(e)])}}

scan_skill_dirs(tree, markers) == ScanFrom(tree, markers, <<>>)

scan ==
    \E tree \in Trees :
    \E markers \in SUBSET tree :
      /\ last' = [Call("scan_skill_dirs") EXCEPT
                     !.out = {[tree |-> tree, markers |-> markers,
                               found |-> scan_skill_dirs(tree, markers)]}]
      /\ UNCHANGED <<db_skills, db_repos, db_pending, sync_method, cfg, ssot, mirror>>

MaxScans == 1

NextScan ==
    /\ calls < MaxScans
    /\ calls' = calls + 1
    /\ scan

SpecScan == InitDiscover /\ [][NextScan]_vars

\* ---------------------------------------------------------------------
\* The repository list: upsert_repo, remove_repo, list_repos
\* ---------------------------------------------------------------------

\* A repository the user adds, not one of the defaults.
RepoZ == [owner |-> <<"z">>, name |-> <<"r">>]
RepoKeys == RepoIds \cup {RepoZ}

RepoEdits ==
    {[owner |-> r.owner, name |-> r.name, branch |-> b, enabled |-> e] :
        r \in RepoKeys, b \in {"main", "dev"}, e \in BOOLEAN}

remove_repo ==
    \E k \in RepoKeys :
        /\ db_repos' = delete_skill_repo(db_repos, k.owner, k.name)
        /\ last' = [Call("remove_repo") EXCEPT !.out = {k}]
        /\ UNCHANGED <<db_skills, db_pending, sync_method, cfg, ssot, mirror>>

list_repos ==
    /\ db_repos' = LoadRepos(db_repos)
    /\ last' = [Call("list_repos") EXCEPT !.out = LoadRepos(db_repos)]
    /\ UNCHANGED <<db_skills, db_pending, sync_method, cfg, ssot, mirror>>

MaxRepoCalls == 3

NextRepos ==
    /\ calls < MaxRepoCalls
    /\ calls' = calls + 1
    /\ \/ upsert_repo(RepoEdits)
       \/ remove_repo
       \/ list_repos

SpecRepos == InitDiscover /\ [][NextRepos]_vars

\* ---------------------------------------------------------------------
\* Start-up: AppState::try_new and the import of a legacy skills.json
\* ---------------------------------------------------------------------

\* What a skills.json may hold: text that does not parse, a legacy store
\* (no version) or a versioned index.
SkillFiles ==
    {FileOf("bad")}
    \cup {[kind |-> k, dirs |-> L, pending |-> b, method |-> m, repos |-> R] :
            k \in {"store", "index"},
            L \in {X \in SUBSET LegacyDirs : Cardinality(X) <= MaxLegacy},
            b \in BOOLEAN, m \in {"Auto", "Copy"},
            R \in {{}, {[owner |-> RepoZ.owner, name |-> RepoZ.name,
                         branch |-> "main", enabled |-> TRUE]}}}

\* The index read from a skills.json that parses: a versioned file as it
\* is; a legacy store as local records of its directories, enabled for
\* Claude, method Auto, migration pending.
load_skills_index_for_migration(file) ==
    IF file.kind = "index"
    THEN [skills |-> {ImportedRecord(d, LocalId(d)) : d \in file.dirs},
          pending |-> file.pending, sync_method |-> file.method, repos |-> file.repos]
    ELSE [skills |-> {LegacyRecord(d) : d \in file.dirs},
          pending |-> TRUE, sync_method |-> "Auto", repos |-> file.repos]

\* Archive names: 1 is skills.json.migrated, n + 1 is skills.json.migrated.n.
RECURSIVE FirstUnused(_, _)
FirstUnused(archives, n) ==
    IF \E a \in archives : a.name = n THEN FirstUnused(archives, n + 1) ELSE n

archive_name_fixed(archives) == 1

\* The candidate the loop of archive_legacy_file ends with.
archive_name(archives) == FirstUnused(archives, 1)

\* rename(path, candidate): whatever had the name is replaced.
archive_legacy_file(archives, file) ==
    LET n == archive_name(archives)
    IN  {a \in archives : a.name # n} \cup {[name |-> n, file |-> file]}

\* Where a call of try_new that finds no database may return: with an
\* error of the legacy files' validation, of Database::init, of the
\* config.json migration, of one of the writes of the skills import, of the
\* archiving, or at its end.
Stops == {"load", "init", "config", "method", "flag", "repos", "skills", "archive", "end"}

try_new ==
    IF cfg.db
    THEN /\ last' = [Call("try_new") EXCEPT !.out = {"database"}]
         /\ UNCHANGED <<db_skills, db_repos, db_pending, sync_method, cfg, ssot, mirror>>
    ELSE
      \E stop \in Stops :
      \E created \in BOOLEAN :
        LET file == cfg.skills_json
            has == file.kind \in {"store", "index"}
            index == load_skills_index_for_migration(file)
            wrote == has /\ stop \in {"flag", "repos", "skills", "archive", "end"}
        IN  /\ (file.kind = "bad") => stop = "load"
            /\ (file.kind = "none") => stop \in {"load", "init", "config", "end"}
            /\ created = (stop # "load" /\ (stop = "init" => created))
            /\ last' = [Call("try_new") EXCEPT
                           !.res = IF stop = "end" THEN "ok" ELSE "io_error",
                           !.out = {stop}]
            /\ sync_method' =
                 IF has /\ stop \notin {"load", "init", "config", "method"}
                 THEN index.sync_method ELSE sync_method
            /\ db_pending' =
                 IF has /\ stop \in {"repos", "skills", "archive", "end"}
                 THEN index.pending ELSE db_pending
            /\ \E R \in SUBSET (IF has THEN index.repos ELSE {}) :
               \E K \in SUBSET (IF has THEN index.skills ELSE {}) :
                 /\ CASE ~has \/ stop \in {"load", "init", "config", "method", "flag"}
                           -> R = {} /\ K = {}
                      [] stop = "repos" -> R # index.repos /\ K = {}
                      [] stop = "skills" -> R = index.repos /\ K # index.skills
                      [] OTHER -> R = index.repos /\ K = index.skills
                 /\ db_repos' = IF stop = "end"
                                THEN init_default_skill_repos(SaveRepos(db_repos, R))
                                ELSE SaveRepos(db_repos, R)
                 /\ db_skills' = {r \in db_skills : \A n \in K : n.id # r.id} \cup K
            /\ cfg' = [db |-> created,
                       skills_json |-> IF has /\ stop = "end" THEN FileOf("none") ELSE file,
                       archives |-> IF has /\ stop = "end"
                                    THEN archive_legacy_file(cfg.archives, file)
                                    ELSE cfg.archives,
                       imports |-> cfg.imports + (IF wrote THEN 1 ELSE 0)]
            /\ UNCHANGED <<ssot, mirror>>

OldArchives == {[name |-> n, file |-> FileOf("old")] : n \in 1..2}

\* Before the first start, or with a database and a skills.json left over:
\* any skills.json, with or without archives of earlier ones.
InitStore ==
    /\ cfg \in [db : BOOLEAN, skills_json : SkillFiles \cup {FileOf("none")},
                archives : SUBSET OldArchives, imports : {0}]
    /\ db_skills = {}
    /\ db_pending = FALSE
    /\ db_repos = IF cfg.db THEN DefaultRepos ELSE {}
    /\ sync_method = "Auto"
    /\ ssot = [d \in Dirs |-> "none"]
    /\ mirror = [a \in Apps |-> [d \in Dirs |-> "none"]]
    /\ last = NoCall
    /\ calls = 0

MaxStoreCalls == 3

NextStore ==
    /\ calls < MaxStoreCalls
    /\ calls' = calls + 1
    /\ \/ try_new
       \/ cfg.db /\ list_installed

SpecStore == InitStore /\ [][NextStore]_vars

(***************************************************************************)
(* The materializer called on its own, on the mirrors as they were found    *)
(* and on the canonical store an import has filled.                         *)
(***************************************************************************)
\* sync_to_app_dir(directory, app, method) with the method of the settings,
\* in one environment of the file system.
sync_dir ==
    \E d \in Dirs, a \in Apps :
    \E env \in Envs({a}) :
      LET o == sync_to_app_dir(d, a, sync_method, ssot, mirror, env)
      IN  /\ mirror' = [mirror EXCEPT ![a][d] = o.cell]
          /\ last' = [Call("sync_to_app_dir") EXCEPT
                         !.dir = Some(d), !.app = a,
                         !.res = IF o.ok THEN "ok" ELSE "io_error",
                         !.out = {env}]
          /\ UNCHANGED <<db_skills, db_repos, db_pending, sync_method, cfg, ssot>>

NextMaterialize ==
    /\ calls < MaxCalls
    /\ calls' = calls + 1
    /\ \/ import_from_apps(ImportInputs)
       \/ sync_dir

InitMaterialize == InitWith(MaxUserDirs, SyncMethods)

SpecMaterialize == InitMaterialize /\ [][NextMaterialize]_vars

(***************************************************************************)
(* A canonical store in which a killed process left the copy of one        *)
(* directory unfinished: the directory exists, SKILL.md is not among the    *)
(* files that were copied.                                                  *)
(***************************************************************************)
Partial == "part"

InitPartial ==
    /\ \E L \in SUBSET LegacyDirs :
          /\ Cardinality(L) <= MaxLegacy
          /\ \A d, e \in L : to_lowercase(d) = to_lowercase(e) => d = e
          /\ db_skills = {LegacyRecord(d) : d \in L}
          /\ db_pending \in (IF L = {} THEN BOOLEAN ELSE {TRUE})
    /\ db_repos = DefaultRepos
    /\ sync_method = "Auto"
    /\ \E p \in LegacyDirs : ssot = [d \in Dirs |-> IF d = p THEN Partial ELSE "none"]
    /\ \E U \in UserPlacements(MaxUserDirs) :
          mirror = [a \in Apps |-> [d \in Dirs |->
                        IF <<a, d>> \in U THEN "usr" ELSE "none"]]
    /\ cfg = Installed
    /\ last = NoCall
    /\ calls = 0

\* The operations that copy into the canonical store.
NextPartial ==
    /\ calls < MaxCalls
    /\ calls' = calls + 1
    /\ \/ list_installed
       \/ import_from_apps(ImportInputs)
       \/ install(InstallSpecs)

SpecPartial == InitPartial /\ [][NextPartial]_vars

Operation ==
    \/ list_installed
    \/ toggle_app(DirInputs)
    \/ uninstall(DirInputs)
    \/ install(InstallSpecs)
    \/ scan_unmanaged
    \/ import_from_apps(ImportInputs)
    \/ sync_all_enabled

\* One call at a time (a single foreground invocation per operation).
Next ==
    /\ calls < MaxCalls
    /\ calls' = calls + 1
    /\ Operation

Spec == Init /\ [][Next]_vars

\* The operations that read the mirrors as they were found.
NextMigrate ==
    /\ calls < MaxCalls
    /\ calls' = calls + 1
    /\ \/ list_installed
       \/ scan_unmanaged
       \/ import_from_apps(ImportInputs)
       \/ sync_all_enabled

SpecMigrate == InitMigrate /\ [][NextMigrate]_vars

\* The operations that sync the mirrors, after an import.
NextSync ==
    /\ calls < MaxCalls
    /\ calls' = calls + 1
    /\ \/ import_from_apps(ImportInputs)
       \/ sync_all_enabled
       \/ sync_all_enabled_best_effort

SpecSync == InitMigrate /\ [][NextSync]_vars

(***************************************************************************)
(* Properties.                                                             *)
(***************************************************************************)
Keys(db) == {r.directory : r \in db}

Targets(app) == IF app = "-" THEN Apps ELSE {app}

C2_TrackedMigrationClaimsNothing ==
    [][(/\ last'.op \in {"list_installed", "sync_all_enabled"}
        /\ last'.mig \in {"tracked", "tracked_failed"})
       => /\ Keys(db_skills') = Keys(db_skills)
          /\ \A d \in Dirs : ssot'[d] # ssot[d] => d \in Keys(db_skills)]_vars

\* A tracked migration has copied a tracked directory while an untracked
\* hand-made directory sits in a mirror and stays out of store and index.
C2_Witness ==
    /\ last.op = "list_installed" /\ last.mig = "tracked"
    /\ \E d \in Keys(db_skills) : ssot[d] # "none"
    /\ \E d \in Dirs \ Keys(db_skills) : \E a \in Apps :
          /\ ~starts_with(d, <<".">>)
          /\ MirrorExists(ssot, mirror, a, d)
          /\ ssot[d] = "none"

\* C3: an install whose install name has an index record of another
\* repository, the record having a repository association or a local: id,
\* returns the directory-conflict error and the record is not overwritten
\* (it keeps id, directory, repository and flags; it is untouched altogether
\* when no migration ran in the call).
C3_ConflictKeepsRecord ==
    [][(last'.op = "install" /\ last'.repo # None) =>
        \A r \in db_skills :
            (/\ r.directory = last'.dir[1]
             /\ ~(/\ r.repo_owner = Some(last'.repo[1].owner)
                  /\ r.repo_name = Some(last'.repo[1].name))
             /\ \/ r.repo_owner # None
                \/ r.repo_name # None
                \/ starts_with(r.id, LocalPrefix))
            => /\ last'.res = "conflict"
               /\ \E q \in db_skills' :
                     /\ q.id = r.id /\ q.directory = r.directory
                     /\ q.repo_owner = r.repo_owner /\ q.repo_name = r.repo_name
                     /\ q.apps = r.apps
               /\ (last'.mig = "none" => r \in db_skills')]_vars

\* An install has been refused for a skill installed from another repository.
C3_Witness ==
    /\ last.op = "install" /\ last.res = "conflict"
    /\ \E r \in db_skills :
          /\ r.directory = last.dir[1]
          /\ r.repo_owner # None
          /\ r.repo_owner # Some(last.repo[1].owner)

C6_UninstallRemovesEverything ==
    [][(last'.op = "uninstall" /\ last'.res = "ok") =>
        /\ ssot'[last'.dir[1]] = "none"
        /\ last'.dir[1] \notin Keys(db_skills')
        /\ \A r \in db_skills : r.directory = last'.dir[1] =>
              \A a \in r.apps : ~MirrorExists(ssot', mirror', a, r.directory)]_vars

\* C6 (amended): after uninstall has returned successfully the canonical
\* directory of the skill does not exist, its key is not in the index, and no
\* mirror path of it is left under any application whose removal did not fail.
C6_UninstallRemovesWhatItCan ==
    [][(last'.op = "uninstall" /\ last'.res = "ok") =>
        /\ ssot'[last'.dir[1]] = "none"
        /\ last'.dir[1] \notin Keys(db_skills')
        /\ \A a \in Apps \ last'.rm_failed : mirror'[a][last'.dir[1]] = "none"
        /\ \A a \in last'.rm_failed : mirror'[a][last'.dir[1]] = mirror[a][last'.dir[1]]]_vars

\* A successful uninstall during which the removal of one mirror failed.
C6_Witness ==
    /\ last.op = "uninstall" /\ last.res = "ok"
    /\ last.rm_failed # {}
    /\ \A a \in last.rm_failed : mirror[a][last.dir[1]] # "none"
    /\ ssot[last.dir[1]] = "none"

\* C7: a migration that runs with the flag pending and an empty skills map,
\* and succeeds, creates exactly one record for each non-dot directory name
\* found in any mirror, flagged for exactly the applications in whose mirror
\* the name was found; each has a copy in the canonical store; the flag is
\* false afterwards.
C7_DiscoverMigrationClaimsMirrors ==
    [][(/\ last'.op \in {"list_installed", "sync_all_enabled"}
        /\ last'.mig = "discover") =>
        LET Found(d) == {a \in Apps : MirrorExists(ssot, mirror, a, d)}
            claimed == {d \in Dirs : Found(d) # {} /\ ~starts_with(d, <<".">>)}
        IN  /\ db_skills = {}
            /\ Keys(db_skills') = claimed
            /\ Cardinality(db_skills') = Cardinality(claimed)
            /\ \A r \in db_skills' :
                  /\ r.id = LocalId(r.directory)
                  /\ r.apps = Found(r.directory)
                  /\ ssot'[r.directory] # "none"
            /\ ~db_pending']_vars

\* A first migration has merged a name found in two mirrors into one record
\* and left a dot directory alone.
C7_Witness ==
    /\ last.op = "list_installed" /\ last.mig = "discover"
    /\ \E r \in db_skills : Cardinality(r.apps) >= 2 /\ ssot[r.directory] = "usr"
    /\ ~db_pending

\* C8: scan_unmanaged returns no directory that is a key of the index, and
\* each returned name once, its found_in listing exactly the applications in
\* whose mirror it is present, each once.
C8_ScanReturnsUnmanagedOnce ==
    last.op = "scan_unmanaged" =>
        /\ \A e \in last.out :
              /\ e.directory \notin Keys(db_skills)
              /\ {e.found_in[i] : i \in DOMAIN e.found_in} =
                    {AppStr(a) : a \in {b \in Apps :
                                          MirrorExists(ssot, mirror, b, e.directory)}}
              /\ \A i, j \in DOMAIN e.found_in :
                    e.found_in[i] = e.found_in[j] => i = j
        /\ \A e, f \in last.out : e.directory = f.directory => e = f

\* A scan has reported, once, a name present in two mirrors, the index
\* tracking another name.
C8_Witness ==
    /\ last.op = "scan_unmanaged"
    /\ \E e \in last.out : Len(e.found_in) >= 2
    /\ db_skills # {}

\* C9 (as stated): no two keys of the index are equal when compared
\* case-insensitively.
C9_KeysUniqueIgnoringCase ==
    \A r, q \in db_skills :
        to_lowercase(r.directory) = to_lowercase(q.directory) =>
            r.directory = q.directory

\* C10: no operation sets the migration flag back to true, a call that finds
\* the flag false runs no migration, and a migration that has run leaves the
\* flag false.
C10_MigrationRunsOnce ==
    [][/\ (~db_pending => ~db_pending')
       /\ (~db_pending => last'.mig = "none")
       /\ (last'.mig \in {"tracked", "discover"} => db_pending /\ ~db_pending')]_vars

\* A call has been made after the migration: the flag is false, the call ran
\* no migration, and the index holds what the migration recorded.
C10_Witness ==
    /\ calls > 1
    /\ ~db_pending
    /\ last.mig = "none" /\ last.op \in {"install", "list_installed", "sync_all_enabled"}
    /\ \E r \in db_skills : starts_with(r.id, LocalPrefix)

\* C11 (as stated): after every call, each record with an app flag set has its
\* canonical directory, unless the migration is still pending.
C11_FlaggedRecordHasCanonicalDir ==
    \A r \in db_skills :
        r.apps # {} => (ssot[r.directory] # "none" \/ db_pending)

\* C11 (amended): after every call, each record with an app flag set has its
\* canonical directory, unless the migration is still pending or the record
\* is a legacy record, still as the legacy store gave it, for which the
\* migration found no directory in a mirror.
C11_FlaggedRecordHasCanonicalDirUnlessLegacy ==
    \A r \in db_skills :
        r.apps # {} =>
            \/ ssot[r.directory] # "none"
            \/ db_pending
            \/ r = LegacyRecord(r.directory)

\* Flagged records that have their canonical directory, one made by install
\* and one by import, with no migration pending.
C11_Witness ==
    /\ ~db_pending
    /\ \E r, q \in db_skills :
          /\ r.repo_owner # None /\ r.apps # {} /\ ssot[r.directory] # "none"
          /\ q.repo_owner = None /\ q.apps # {} /\ ssot[q.directory] # "none"

\* C12 (as stated): every operation that loads the index runs the migration
\* when the flag is pending, so none acts on an index that is still pending.
C12_EveryLoadMigrates ==
    [][(/\ db_pending
        /\ last'.op \in {"list_installed", "install", "toggle_app", "uninstall",
                         "scan_unmanaged", "import_from_apps", "sync_all_enabled"}
        /\ last'.res # "invalid_input")
       => last'.mig # "none"]_vars

\* C13: toggle_app saves the flag only when its file system step succeeded:
\* on an error the persisted records are as before the call, on success the
\* persisted flag of the record is the requested value.
C13_ToggleSavesAfterFileSystem ==
    [][(last'.op = "toggle_app" /\ last'.dir # None) =>
        /\ last'.res \in {"ok", "io_error"}
        /\ (last'.res = "io_error" => db_skills' = db_skills)
        /\ (last'.res = "ok" =>
              /\ \A r \in db_skills' : r.directory = last'.dir[1] =>
                    (last'.app \in r.apps <=> last'.enabled)
              /\ (MirrorExists(ssot', mirror', last'.app, last'.dir[1])
                    <=> last'.enabled))]_vars

\* A toggle_app that failed in its file system step: the requested flag value
\* is not the persisted one.
C13_Witness ==
    /\ last.op = "toggle_app" /\ last.res = "io_error"
    /\ \E r \in db_skills :
          /\ r.directory = last.dir[1]
          /\ ~(last.app \in r.apps <=> last.enabled)

\* C14: in uninstall a mirror that cannot be removed does not end the call:
\* the mirrors of the other applications are removed, and the call fails only
\* when the canonical directory could not be removed; otherwise the
\* canonical directory and the record are gone.
C14_UninstallGoesOnPastMirrorFailure ==
    [][(last'.op = "uninstall" /\ last'.dir # None /\ last'.rm_failed # {}) =>
        /\ \A a \in Apps \ last'.rm_failed : mirror'[a][last'.dir[1]] = "none"
        /\ (last'.res = "ok" \/ (ssot[last'.dir[1]] # "none" /\ ssot' = ssot))
        /\ (last'.res = "ok" =>
              /\ ssot'[last'.dir[1]] = "none"
              /\ \A r \in db_skills' : r.directory # last'.dir[1])]_vars

\* An uninstall in which the mirror of one application could not be removed,
\* the mirror of another was removed, and record and canonical directory
\* are gone.
C14_Witness ==
    /\ last.op = "uninstall" /\ last.res = "ok" /\ last.rm_failed # {}
    /\ \A r \in db_skills : r.directory # last.dir[1]
    /\ \E a \in last.rm_failed : mirror[a][last.dir[1]] \in Contents
    /\ \E a \in Apps \ last.rm_failed : mirror[a][last.dir[1]] = "none"

\* C15 (as stated): after uninstall returns, with success or an error, the
\* canonical directory, the mirrors and the record are all gone or none of
\* them has been removed.
C15_UninstallAllOrNothing ==
    [][(last'.op = "uninstall" /\ last'.dir # None) =>
        \/ /\ ssot'[last'.dir[1]] = "none"
           /\ \A a \in Apps : mirror'[a][last'.dir[1]] = "none"
           /\ \A r \in db_skills' : r.directory # last'.dir[1]
        \/ UNCHANGED <<ssot, mirror, db_skills>>]_vars

\* C15 (amended): uninstall removes the mirrors first, then the canonical
\* directory, then the record: after it returns the record is gone exactly
\* when the call succeeded, and then the canonical directory is gone too; on
\* an error record and canonical directory are as before, whatever mirrors
\* have been removed.
C15_RecordGoesWithCanonicalDir ==
    [][(last'.op = "uninstall" /\ last'.dir # None) =>
        /\ (last'.res = "ok" <=> \A r \in db_skills' : r.directory # last'.dir[1])
        /\ (last'.res = "ok" => ssot'[last'.dir[1]] = "none")
        /\ (last'.res # "ok" => db_skills' = db_skills /\ ssot' = ssot)
        /\ \A a \in Apps : mirror'[a][last'.dir[1]] \in {"none", mirror[a][last'.dir[1]]}]_vars

\* An uninstall that failed on the canonical directory after it had removed
\* a mirror: the record is kept, flagged for an application whose mirror is
\* gone.
C15_Witness ==
    /\ last.op = "uninstall" /\ last.res = "io_error"
    /\ \E r \in db_skills :
          /\ r.directory = last.dir[1]
          /\ ssot[r.directory] # "none"
          /\ \E a \in r.apps : mirror[a][r.directory] = "none"

C17_SpecResolution ==
    [][/\ last'.op = "resolve_spec" =>
            \A o \in last'.out :
              LET exact == {x \in o.disc : x.key = o.spec}
                  matches == {x \in o.disc :
                                to_lowercase(x.directory) = to_lowercase(o.spec)}
              IN  CASE exact # {} ->
                          last'.res = "ok" /\ o.skill # None /\ o.skill[1] \in exact
                    [] exact = {} /\ Cardinality(matches) = 1 ->
                          last'.res = "ok" /\ o.skill # None /\ o.skill[1] \in matches
                    [] exact = {} /\ matches = {} ->
                          last'.res = "not_found" /\ o.skill = None
                    [] OTHER -> last'.res = "ambiguous" /\ o.skill = None
       /\ (last'.op = "install" /\ last'.res \in {"not_found", "ambiguous"}) =>
            /\ last'.dir = None
            /\ UNCHANGED <<ssot, mirror, db_repos>>
            /\ db_skills' = db_skills]_vars

\* An install whose spec names a directory has been refused as ambiguous,
\* two repositories being enabled, and nothing is installed.
C17_Witness ==
    /\ last.op = "install" /\ last.res = "ambiguous"
    /\ Cardinality(EnabledRepos(db_repos)) >= 2
    /\ db_skills = {}

\* C20: whatever the order in which the fetches complete and whichever of
\* them fail, discover_available returns success with exactly the packages
\* of the enabled repositories whose fetch succeeded; a disabled repository
\* is never fetched.
C20_DiscoveryOfSucceededFetches ==
    /\ last.op = "discovering" =>
          \A t \in last.out : t.repo \in EnabledRepos(db_repos)
    /\ last.op = "discover_available" =>
          /\ last.res = "ok"
          /\ last.fetched \subseteq EnabledRepos(db_repos)
          /\ last.out = UNION {fetch_repo_skills(rid) : rid \in last.fetched}

\* A discovery in which the fetch of one enabled repository failed and that
\* of another succeeded, a third repository being disabled.
C20_Witness ==
    /\ last.op = "discover_available"
    /\ last.fetched # {}
    /\ EnabledRepos(db_repos) \ last.fetched # {}
    /\ last.out # {}

\* C18: sync_all_enabled runs the migration first; when it returns success
\* every record flagged for a targeted application has its mirror; when the
\* migration fails it returns the error and no mirror is touched; when the
\* sync of an application fails it returns the error and the mirrors of the
\* applications after it, and of those not targeted, are as they were.
C18_SyncAllEnabledStopsAtFirstError ==
    [][last'.op = "sync_all_enabled" =>
         LET targeted == IF last'.app = "-" THEN Apps ELSE {last'.app}
         IN  /\ db_pending => last'.mig # "none"
             /\ last'.mig \in {"tracked_failed", "discover_failed"} =>
                   last'.res = "io_error" /\ mirror' = mirror
             /\ last'.res = "ok" =>
                   /\ last'.sync_failed = {}
                   /\ \A a \in targeted : \A r \in db_skills' :
                         a \in r.apps => mirror'[a][r.directory] # "none"
             /\ last'.sync_failed # {} =>
                   /\ last'.res = "io_error"
                   /\ \A f \in last'.sync_failed : \A a \in Apps :
                         (a \notin targeted \/ AppPos(a) > AppPos(f)) =>
                             mirror'[a] = mirror[a]
             /\ \A a \in Apps \ targeted : mirror'[a] = mirror[a]]_vars

\* A sync of all three applications failed at one of them and a later
\* application has a flagged record whose mirror was not refreshed.
C18_Witness ==
    /\ last.op = "sync_all_enabled" /\ last.app = "-"
    /\ last.res = "io_error"
    /\ \E f \in last.sync_failed : \E a \in Apps : \E r \in db_skills :
          /\ AppPos(a) > AppPos(f)
          /\ a \in r.apps
          /\ sync_method = "Symlink"
          /\ mirror[a][r.directory] # "link"

\* C19: sync_all_enabled_best_effort returns success whether or not the
\* migration or the sync of an application failed, and every application
\* whose own sync did not fail has the mirrors of its flagged records
\* whatever happened to the other applications.
C19_BestEffortNeverFails ==
    [][last'.op = "sync_all_enabled_best_effort" =>
         /\ last'.res = "ok"
         /\ \A a \in Apps \ last'.sync_failed : \A r \in db_skills' :
               a \in r.apps => mirror'[a][r.directory] # "none"]_vars

\* A best-effort sync in which one application failed and a later
\* application was synced to a symlink all the same.
C19_Witness ==
    /\ last.op = "sync_all_enabled_best_effort"
    /\ \E f \in last.sync_failed : \E a \in Apps \ last.sync_failed :
       \E r \in db_skills :
          /\ AppPos(a) > AppPos(f)
          /\ a \in r.apps
          /\ mirror[a][r.directory] = "link"

\* C21 (as stated): a canonical directory left partially copied is recopied:
\* after an install of the package, an import that created or updated its
\* record, or a migration that found a source for it returns success, the
\* canonical directory is no longer the partial copy.
C21_PartialCopyIsRecopied ==
    [][last'.res = "ok" =>
         \A d \in Dirs :
            (\/ last'.op = "install" /\ last'.dir = Some(d)
             \/ /\ last'.op = "import_from_apps"
                /\ \E r \in db_skills' \ db_skills : r.directory = d
             \/ /\ last'.op = "list_installed"
                /\ last'.mig \in {"tracked", "discover"}
                /\ \E r \in db_skills' : /\ r.directory = d
                                         /\ \E a \in r.apps :
                                               MirrorExists(ssot, mirror, a, d))
            => ssot'[d] # Partial]_vars

\* C22: a successful import_from_apps keeps every record it found, with the
\* same id, directory and repository fields, with no flag cleared, the name
\* changed only if it was blank and the description only if it was unset;
\* a flag it adds is that of an application whose mirror holds the
\* directory; a record it creates has the id local:<directory> and exactly
\* the flags of the applications whose mirror holds the directory, so that
\* a name found in no mirror creates nothing.
C22_ImportMergesFlags ==
    [][(last'.op = "import_from_apps" /\ last'.res = "ok") =>
         LET found_in(d) == {a \in Apps : MirrorExists(ssot, mirror, a, d)}
         IN  /\ \A old \in db_skills : \E new \in db_skills' :
                   /\ new.id = old.id
                   /\ new.directory = old.directory
                   /\ new.repo_owner = old.repo_owner
                   /\ new.repo_name = old.repo_name
                   /\ old.apps \subseteq new.apps
                   /\ new.apps \ old.apps \subseteq found_in(old.directory)
                   /\ (new.name # old.name => trim(old.name) = <<>>)
                   /\ (new.description # old.description => old.description = None)
             /\ \A new \in db_skills' :
                   (\A old \in db_skills : old.id # new.id) =>
                       /\ new.id = LocalId(new.directory)
                       /\ new.repo_owner = None /\ new.repo_name = None
                       /\ new.apps = found_in(new.directory)
                       /\ new.apps # {}]_vars

\* An import gave a record that was flagged for Claude (whose mirror does
\* not hold the directory) the flag of Codex too, filled its description and
\* kept its name; no other record was created.
C22_Witness ==
    /\ last.op = "import_from_apps" /\ last.res = "ok"
    /\ \E r \in db_skills :
          /\ {"claude", "codex"} \subseteq r.apps
          /\ mirror["claude"][r.directory] = "none"
          /\ r.name = r.directory
          /\ r.description # None
    /\ Cardinality(db_skills) = 1

\* C23 (as stated): when the migration has taken the branch of an index that
\* tracks skills, the pending flag is false when it returns, whether the
\* copies succeeded, found no source or failed.
C23_TrackedMigrationClearsPending ==
    [][last'.mig \in {"tracked", "tracked_failed"} => ~db_pending']_vars

\* C24: after a migration of either branch has returned successfully (here
\* in list_installed, which returns the records of the index in memory), the
\* persisted flag is false and a fresh load_index yields the records the
\* migration produced in memory.
C24_MigrationPersistsIndex ==
    (/\ last.op = "list_installed" /\ last.res = "ok"
     /\ last.mig \in {"tracked", "discover"})
    => /\ ~db_pending
       /\ \A f \in LoadedSkillMaps : {f[d] : d \in DOMAIN f} = last.out

\* A migration that backfilled the name of a tracked record from SKILL.md
\* has returned.
C24_Witness ==
    /\ last.op = "list_installed" /\ last.res = "ok" /\ last.mig = "tracked"
    /\ \E r \in last.out : r.name # r.directory /\ ssot[r.directory] # "none"

\* C25 (as stated): install, toggle_app, uninstall and sync_all_enabled
\* delete or replace a real (non-symlink) directory of an application
\* mirror only if, before the call, the index held a record of that
\* directory name flagged for that application.
C25_UnflaggedDirectoriesSurvive ==
    [][last'.op \in {"install", "toggle_app", "uninstall", "sync_all_enabled"} =>
         \A a \in Apps : \A d \in Dirs :
            (mirror[a][d] \notin {"none", "link"} /\ mirror'[a][d] # mirror[a][d])
            => \E r \in db_skills : r.directory = d /\ a \in r.apps]_vars

C27_SyncMethodSwitch ==
    [][last'.op = "sync_to_app_dir" =>
         \A env \in last'.out :
           LET a == last'.app
               d == last'.dir[1]
               cleared == mirror[a][d] = "none" \/ a \notin env.rm_bad
               linked == last'.res = "ok" /\ mirror'[a][d] = "link"
               copied == last'.res = "ok" /\ mirror'[a][d] = ssot[d]
               failed == last'.res = "io_error" /\ mirror'[a][d] # "link"
               nothing == mirror'[a][d] = "none"
           IN  (ssot[d] # "none" /\ cleared) =>
                 CASE sync_method = "Auto" ->
                        IF ~env.sym_fail THEN linked
                        ELSE IF a \notin env.copy_bad THEN copied ELSE failed
                   [] sync_method = "Symlink" ->
                        IF ~env.sym_fail THEN linked ELSE failed /\ nothing
                   [] sync_method = "Copy" ->
                        IF a \notin env.copy_bad THEN copied ELSE failed]_vars

\* Under Auto the symlink failed and the mirror is a copy of the canonical
\* directory.
C27_Witness ==
    /\ last.op = "sync_to_app_dir" /\ last.res = "ok"
    /\ sync_method = "Auto"
    /\ \E env \in last.out : env.sym_fail
    /\ mirror[last.app][last.dir[1]] = ssot[last.dir[1]]
    /\ ssot[last.dir[1]] # "none"

\* C28: sync_to_app_dir for a directory the canonical store does not hold
\* returns an error and leaves every mirror as it was: what is at the
\* destination is not removed and nothing is created.
C28_MissingSourceTouchesNothing ==
    [][(last'.op = "sync_to_app_dir" /\ ssot[last'.dir[1]] = "none") =>
         /\ last'.res = "io_error"
         /\ mirror' = mirror]_vars

\* The sync of a directory that the mirror holds and the canonical store
\* does not has failed, and the directory of the mirror is still there.
C28_Witness ==
    /\ last.op = "sync_to_app_dir" /\ last.res = "io_error"
    /\ ssot[last.dir[1]] = "none"
    /\ mirror[last.app][last.dir[1]] = "usr"

\* C29 (as stated): with no migration pending, an install that returns an
\* error leaves the persisted records as they were: no new record and no
\* newly set flag.
C29_FailedInstallSavesNothing ==
    [][(~db_pending /\ last'.op = "install" /\ last'.res # "ok")
       => db_skills' = db_skills]_vars

C31_ToggleIsIdempotent ==
    [][(last'.op = "toggle_app" /\ last'.dir # None) =>
         /\ last'.again =>
               /\ db_skills' = db_skills
               /\ ssot' = ssot
               /\ last'.res = "ok" =>
                     \A a \in Apps : \A d \in Dirs :
                        (mirror'[a][d] = "none") <=> (mirror[a][d] = "none")
         /\ (~last'.enabled /\ mirror[last'.app][last'.dir[1]] = "none") =>
               /\ last'.res = "ok"
               /\ mirror' = mirror /\ ssot' = ssot]_vars

\* The same disable has succeeded twice in a row: the second found the
\* mirror absent.
C31_Witness ==
    /\ last.op = "toggle_app" /\ last.res = "ok" /\ last.again
    /\ ~last.enabled
    /\ mirror[last.app][last.dir[1]] = "none"
    /\ \E r \in db_skills : r.directory = last.dir[1] /\ last.app \notin r.apps

\* C32: download_repo tries the configured branch (if it is not blank), then
\* main, then master, in this order: every candidate before the last one
\* attempted failed, the download succeeds exactly when the last one
\* attempted succeeded, and it fails only after all candidates were
\* attempted.
C32_BranchCandidatesInOrder ==
    (last.op = "download_repo") =>
        \A o \in last.out :
          LET candidates == IF trim(o.branch) = <<>>
                            THEN <<Branch_main, Branch_master>>
                            ELSE <<o.branch, Branch_main, Branch_master>>
              n == Len(o.attempted)
          IN  o.tempdir_ok =>
                /\ n \in 1..Len(candidates)
                /\ o.attempted = SubSeq(candidates, 1, n)
                /\ \A i \in 1..(n - 1) : o.outcomes[i] # "ok"
                /\ (last.res = "ok") <=> (o.outcomes[n] = "ok")
                /\ (last.res # "ok") => n = Len(candidates)

\* A download whose configured branch failed and whose second candidate,
\* main, succeeded: master was not attempted.
C32_Witness ==
    /\ last.op = "download_repo" /\ last.res = "ok"
    /\ \E o \in last.out :
          /\ o.attempted = <<Branch_dev, Branch_main>>
          /\ o.outcomes[1] = "404" /\ o.outcomes[3] = "ok"

\* C33: when every candidate of download_repo failed, the error returned is
\* the error of the last candidate attempted, with the hint of its status,
\* and never the fallback error that carries no status.
C33_LastCandidateErrorReturned ==
    (last.op = "download_repo" /\ last.res # "ok") =>
        \A o \in last.out :
          o.tempdir_ok =>
            LET n == Len(o.attempted)
                status == o.outcomes[n]
            IN  /\ o.error # None
                /\ o.error[1] # FallbackError
                /\ status \in {"403", "404", "429", "500"} =>
                      /\ o.error[1].code = "DOWNLOAD_FAILED"
                      /\ o.error[1].status = Some(status)
                      /\ o.error[1].hint =
                            Some(CASE status = "403" -> "http403"
                                   [] status = "404" -> "http404"
                                   [] status = "429" -> "http429"
                                   [] OTHER -> "checkNetwork")
                /\ status = "send_failed" => o.error[1].code = "skills.download_failed"
                /\ status = "zip_invalid" => o.error[1].code = "skills.zip_invalid"

\* Every candidate failed, the first with a failed request and the last with
\* status 404, and the error returned carries the 404 hint.
C33_Witness ==
    /\ last.op = "download_repo" /\ last.res = "download_failed"
    /\ \E o \in last.out :
          /\ Len(o.attempted) = 3
          /\ o.outcomes[1] = "send_failed" /\ o.outcomes[3] = "404"
          /\ o.error = Some([code |-> "DOWNLOAD_FAILED", status |-> Some("404"),
                             hint |-> Some("http404")])

\* C34 (as stated): in sync_all_enabled_best_effort the failure of one
\* package of an application keeps no other enabled package of that
\* application from being synced: no enabled package is left out of a call.
C34_BestEffortSkipsNoPackage ==
    [][last'.op = "sync_all_enabled_best_effort" => last'.skipped = {}]_vars

\* C35: scan_skill_dirs(root) returns exactly the directories other than
\* root that hold SKILL.md, have no directory holding SKILL.md strictly
\* between root and themselves, and have no name on the path from root to
\* themselves (their own included) that begins with a dot or is node_modules
\* or target.
C35_ScanFindsOutermostPackageRoots ==
    last.op = "scan_skill_dirs" =>
        \A c \in last.out :
            c.found =
              {d \in c.tree :
                  /\ d # <<>>
                  /\ d \in c.markers
                  /\ \A n \in 1..(Len(d) - 1) : SubSeq(d, 1, n) \notin c.markers
                  /\ \A n \in 1..Len(d) :
                        /\ Head(d[n]) # "."
                        /\ d[n] # Name_node_modules
                        /\ d[n] # Name_target}

\* A scan of a tree whose root holds SKILL.md, with a package root that has a
\* marked directory below it and a marked directory under a hidden one: the
\* package root alone is returned.
C35_Witness ==
    /\ last.op = "scan_skill_dirs"
    /\ \E c \in last.out :
          /\ {<<>>, <<Name_s>>, <<Name_s, Name_s>>, <<Name_git, Name_s>>}
                \subseteq c.markers
          /\ c.found = {<<Name_s>>}

HasRepo(repos, k) == \E r \in repos : repo_key_is(r, k.owner, k.name)

\* C36: the repository list holds at most one entry for each (owner, name)
\* after any sequence of upsert_repo and remove_repo calls, in the database
\* and in what list_repos returns, and after upsert_repo the one entry with
\* the key of its argument is the argument, branch and enabled included.
C36_RepositoriesKeyedByOwnerAndName ==
    /\ \A r, q \in db_repos : repo_key_is(r, q.owner, q.name) => r = q
    /\ last.op = "list_repos" =>
          \A r, q \in last.out : repo_key_is(r, q.owner, q.name) => r = q
    /\ last.op = "upsert_repo" =>
          \A c \in last.out :
              {r \in db_repos : repo_key_is(r, c.repo.owner, c.repo.name)} = {c.repo}

\* upsert_repo of a default repository, present when the call was made, with
\* another branch and disabled.
C36_Witness ==
    /\ last.op = "upsert_repo"
    /\ \E c \in last.out :
          /\ c.existed
          /\ c.repo = [owner |-> RepoX.owner, name |-> RepoX.name,
                       branch |-> "dev", enabled |-> FALSE]
          /\ c.repo \in db_repos

\* C37 (as stated): a repository that remove_repo removed stays removed
\* until upsert_repo is called for it: a key the repository table does not
\* hold is in the table, or in what list_repos returns, after no call other
\* than an upsert_repo of that key.  (Every default repository is in the
\* table at the start, so one that is absent has been removed.)
C37_RemovedRepositoryStaysRemoved ==
    [][\A k \in RepoIds :
          (/\ ~HasRepo(db_repos, k)
           /\ ~(last'.op = "upsert_repo" /\ \E c \in last'.out :
                    repo_key_is(c.repo, k.owner, k.name)))
          => /\ ~HasRepo(db_repos', k)
             /\ last'.op = "list_repos" => ~HasRepo(last'.out, k)]_vars

\* C38: try_new imports a skills.json at most once, and only in a call that
\* found no database file; the file is archived only in a call that has
\* written its repositories, its packages and its migration flag to the
\* store, under a name no archive had, the earlier archives staying as they
\* were; and a try_new that finds the database changes neither the store nor
\* the files, so it imports nothing again and leaves the migration flag.
C38_LegacyIndexImportedOnce ==
    [][/\ cfg'.imports <= 1
       /\ cfg'.imports # cfg.imports => ~cfg.db /\ last'.op = "try_new"
       /\ cfg'.archives # cfg.archives =>
             LET index == load_skills_index_for_migration(cfg.skills_json)
             IN  /\ last'.op = "try_new"
                 /\ index.repos \subseteq db_repos'
                 /\ index.skills \subseteq db_skills'
                 /\ db_pending' = index.pending
                 /\ cfg.archives \subseteq cfg'.archives
                 /\ \E a \in cfg'.archives \ cfg.archives :
                       /\ a.file = cfg.skills_json
                       /\ cfg'.archives = cfg.archives \cup {a}
                       /\ ~\E o \in cfg.archives : o.name = a.name
                 /\ cfg'.skills_json = FileOf("none")
       /\ (cfg.db /\ last'.op = "try_new") =>
             UNCHANGED <<db_skills, db_repos, db_pending, sync_method, cfg>>]_vars

\* try_new has found the database that an earlier try_new filled from a
\* legacy store, whose file it archived beside two earlier archives, after
\* the migration had cleared the flag: the flag is still cleared and the
\* record imported once.
C38_Witness ==
    /\ last.op = "try_new"
    /\ last.out = {"database"}
    /\ cfg.imports = 1
    /\ cfg.skills_json = FileOf("none")
    /\ \E a \in cfg.archives : a.name = 3 /\ a.file.kind = "store"
    /\ OldArchives \subseteq cfg.archives
    /\ ~db_pending
    /\ LegacyRecord(Dir_a) \in db_skills

====
